---------------------------- MODULE Spec2Model ----------------------------
(***************************************************************************)
(* A model of the zatel daemon (src/src/daemon/zateld.rs) and of the       *)
(* library code it runs (src/src/lib/{yaml,connection,plugin,ipc}.rs).     *)
(*                                                                         *)
(* Values are tagged tuples, the tag first:                                *)
(*   serde_yaml::Value   <<"Null">>, <<"Int", s>>, <<"Str", s>>,           *)
(*                       <<"Map", items>>  items: sequence of <<key, value>>*)
(*                       in insertion order (serde_yaml::Mapping keeps it) *)
(*   YAML text           <<"yaml", style, value>>, <<"empty">>, <<"bad">>  *)
(*   Option<String>      <<"None">>, <<"Some", s>>                         *)
(*   Result<T, E>        <<"Ok", t>>, <<"Err", e>>                         *)
(*   ZatelIpcData        <<variant>> or <<variant, payload>>               *)
(***************************************************************************)
EXTENDS Naturals, Sequences, FiniteSets, TLC

VARIABLES
    plugins,      \* the registry load_plugins returned (zateld.rs:43)
    pc,           \* the position of handle_client / of the merge driver
    nrecv,        \* frames the session has read from the client's stream
    req,          \* ipc_msg.data of the request being dispatched
    desire,       \* validate_conf: desire_yaml_mapping
    ztl_con,      \* handle_save_conf: ztl_con, <<"Set", record>> once assigned
    calls,        \* the fan-out in flight: per plugin, its ipc_plugin_exec future
    contacted,    \* per plugin: the requests it was called with for this request
    hres,         \* the Result the handler returned
    reply,        \* reply_ipc_msg
    sends,        \* the calls of ipc_send: the number of the request replied to
    last_send,    \* the last call of ipc_send: its message and what it returned
    closedBy,     \* why the session ended
    yml_strs,     \* merge driver: the argument of merge_yaml_mappings
    merged,       \* merge driver: its result
    fan_cap,      \* ipc_plugins_exec alone: its capacity argument
    fan_res,      \* ipc_plugins_exec alone: what it returned
    finished,     \* ipc_plugins_exec alone: the plugins in the order their calls completed
    stream,       \* ipc_recv: what the peer has put on the stream
    mode,         \* ipc_recv: the function called (ipc_recv, ipc_recv_safe, ipc_exec)
    msg_size,     \* ipc_recv: message_size
    body_reads,   \* ipc_recv: the calls of read_exact for the body
    rres,         \* ipc_recv: the Result returned
    dir,          \* load_plugins: the entries of the folder not yet visited
    connects,     \* load_plugins: the connection attempts made to the plugin at hand
    outcomes,     \* load_plugins: per started plugin, what plugin_start returned
    clients,      \* main: the sessions spawned, each with its clone of the registry
    files,        \* conman: per uuid, the file of the configuration folder
    last_saved,   \* conman: per uuid, the record of the last SaveConf that was answered SaveConfReply
    handled       \* conman: the last request handled and the reply to it

fanvars == <<fan_cap, fan_res, finished>>

recvvars == <<stream, mode, msg_size, body_reads, rres>>

loadvars == <<dir, connects, outcomes>>

mainvars == <<clients>>

conmanvars == <<files, last_saved, handled>>

vars == <<plugins, pc, nrecv, req, desire, ztl_con, calls, contacted,
          hres, reply, sends, last_send, closedBy, yml_strs, merged,
          fanvars, recvvars, loadvars, mainvars, conmanvars>>

(***************************************************************************)
(* Bounds of the model.                                                    *)
(***************************************************************************)
MaxPlugins == 2

MaxRequests == 2

MaxFrags == 3

MaxEntries == 2

MaxSessions == 2

(***************************************************************************)
(* lib/error.rs                                                            *)
(***************************************************************************)
ErrorKind == {"InvalidArgument", "ZatelBug", "PluginError"}

bug(message) == [kind |-> "ZatelBug", msg |-> message]

\* An unrecognized request answered as a defect of the daemon
invalid_argument_as_bug(message) == bug(message)

invalid_argument(message) == [kind |-> "InvalidArgument", msg |-> message]

plugin_error(message) == [kind |-> "PluginError", msg |-> message]

Ok(x) == <<"Ok", x>>

Err(e) == <<"Err", e>>

IsOk(r) == r[1] = "Ok"

IsErr(r) == r[1] = "Err"

None == <<"None">>

Some(s) == <<"Some", s>>

(***************************************************************************)
(* serde_yaml: values, text, from_str and to_string.                       *)
(***************************************************************************)
Int1 == <<"Int", "1">>

Int2 == <<"Int", "2">>

Int3 == <<"Int", "3">>

Map(items) == <<"Map", items>>

\* serde_yaml::Value::as_mapping
as_mapping(value) == IF value[1] = "Map" THEN Some(value[2]) ELSE None

\* serde_yaml::to_string of a value: always the block style
to_string(value) == <<"yaml", "block", value>>

\* Text in the block style, and the same document in the flow style
Block(items) == <<"yaml", "block", Map(items)>>

Flow(items) == <<"yaml", "flow", Map(items)>>

\* A from_str that reads whatever it is given, as the null when it is no YAML
from_str_any(text) ==
    IF text[1] = "yaml" THEN <<"Ok", text[3]>> ELSE <<"Ok", <<"Null">> >>

\* serde_yaml::from_str::<serde_yaml::Value>: the style of the text is lost;
\* text that is no YAML, and the empty text (end of stream), are errors
from_str(text) ==
    IF text[1] = "yaml" THEN Ok(text[3]) ELSE Err(<<"yaml error", text>>)

\* An equality that takes two mappings as equal without looking into them
value_eq_top_level(a, b) ==
    IF a[1] = "Map" /\ b[1] = "Map" THEN TRUE ELSE a = b

\* PartialEq of serde_yaml::Value. A Mapping is an ordered map and its
\* equality compares the entries in their order.
value_eq(a, b) == a = b

\* Mapping::contains_key
contains_key(items, key) == \E i \in 1..Len(items) : items[i][1] = key

\* Mapping index: full_obj[key]
map_get(items, key) ==
    items[CHOOSE i \in 1..Len(items) : items[i][1] = key][2]

(***************************************************************************)
(* lib/yaml.rs: merge_yaml_mappings                                        *)
(***************************************************************************)
RECURSIVE merge_entries_first_seen(_, _)
\* The loop over a fragment's entries keeping the value seen first
merge_entries_first_seen(full_obj, cur) ==
    IF cur = <<>> THEN Ok(full_obj)
    ELSE IF contains_key(full_obj, cur[1][1])
    THEN merge_entries_first_seen(full_obj, Tail(cur))
    ELSE merge_entries_first_seen(Append(full_obj, cur[1]), Tail(cur))

\* The loop over a fragment's entries replacing what was merged so far
merge_entries_overwriting(full_obj, cur) == Ok(cur)

RECURSIVE merge_entries(_, _)
\* yaml.rs:35-47, the loop over one fragment's entries
merge_entries(full_obj, cur) ==
    IF cur = <<>> THEN Ok(full_obj)
    ELSE LET key == cur[1][1]
             value == cur[1][2]
         IN  IF contains_key(full_obj, key)
             THEN LET old_value == map_get(full_obj, key)
                  IN  IF ~value_eq(old_value, value)
                      THEN Err(plugin_error(
                               <<"Duplicate key", key, value, old_value>>))
                      ELSE merge_entries(full_obj, Tail(cur))
             ELSE merge_entries(Append(full_obj, <<key, value>>), Tail(cur))

RECURSIVE merge_fragments_skipping(_, _)
\* The loop over the fragments passing over what is not a mapping
merge_fragments_skipping(full_obj, strs) ==
    IF strs = <<>> THEN Ok(full_obj)
    ELSE LET parsed == from_str(strs[1])
         IN  IF IsErr(parsed) \/ as_mapping(parsed[2]) = None
             THEN merge_fragments_skipping(full_obj, Tail(strs))
             ELSE LET r == merge_entries(full_obj, as_mapping(parsed[2])[2])
                  IN  IF IsErr(r) THEN r
                      ELSE merge_fragments_skipping(r[2], Tail(strs))

RECURSIVE merge_fragments(_, _)
\* yaml.rs:23-56, the loop over the fragments
merge_fragments(full_obj, strs) ==
    IF strs = <<>> THEN Ok(full_obj)
    ELSE LET parsed == from_str(strs[1])
         IN  IF IsErr(parsed)
             THEN Err(plugin_error(<<"Invalid format of YAML reply", strs[1]>>))
             ELSE LET cur == as_mapping(parsed[2])
                  IN  IF cur = None
                      THEN Err(plugin_error(<<"is not mapping", parsed[2]>>))
                      ELSE LET r == merge_entries(full_obj, cur[2])
                           IN  IF IsErr(r) THEN r
                               ELSE merge_fragments(r[2], Tail(strs))

merge_yaml_mappings(strs) ==
    LET r == merge_fragments(<<>>, strs)
    IN  IF IsErr(r) THEN r ELSE Ok(to_string(Map(r[2])))

SeqsUpTo(S, n) == UNION { [1..k -> S] : k \in 0..n }

NotRun == <<"NotRun">>

Idle == <<"Idle">>

\* The variables of the other machines, at rest
FanIdle == fan_cap = Idle /\ fan_res = Idle /\ finished = <<>>

RecvIdle ==
    /\ stream = Idle
    /\ mode = Idle
    /\ msg_size = 0
    /\ body_reads = 0
    /\ rres = Idle

LoadIdle == dir = <<>> /\ connects = 0 /\ outcomes = <<>>

MainIdle == clients = <<>>

ConmanIdle == files = <<>> /\ last_saved = <<>> /\ handled = Idle

(***************************************************************************)
(* lib/connection.rs                                                       *)
(***************************************************************************)
ZatelConnection(uuid, name, config) ==
    [uuid |-> uuid, name |-> name, config |-> config]

RECURSIVE merge_from_any_identity(_, _, _, _)
\* The loop of merge_from without the comparison of name and uuid
merge_from_any_identity(self_name, self_uuid, ztl_cons, conf_strs) ==
    IF ztl_cons = <<>> THEN Ok(conf_strs)
    ELSE merge_from_any_identity(self_name, self_uuid, Tail(ztl_cons),
                                 Append(conf_strs, ztl_cons[1].config))

RECURSIVE merge_from_check(_, _, _, _)
\* connection.rs:60-82, the loop over ztl_cons: the first fragment holding
\* another name or uuid ends it; conf_strs collects the configs
merge_from_check(self_name, self_uuid, ztl_cons, conf_strs) ==
    IF ztl_cons = <<>> THEN Ok(conf_strs)
    ELSE LET c == ztl_cons[1]
         IN  IF c.name # None /\ c.name[2] # self_name
             THEN Err(plugin_error(<<"different name", self_name, c.name>>))
             ELSE IF c.uuid # None /\ c.uuid[2] # self_uuid
             THEN Err(plugin_error(<<"different uuid", self_uuid, c.uuid>>))
             ELSE merge_from_check(self_name, self_uuid, Tail(ztl_cons),
                                   Append(conf_strs, c.config))

\* ZatelConnection::merge_from: Ok(self after the merge) or the error
merge_from(self, ztl_cons) ==
    IF self.name = None
    THEN Err(bug(<<"Self ZatelConnection has no name", self>>))
    ELSE IF self.uuid = None
    THEN Err(bug(<<"Self ZatelConnection has no uuid", self>>))
    ELSE LET strs == merge_from_check(self.name[2], self.uuid[2], ztl_cons,
                                      <<self.config>>)
         IN  IF IsErr(strs) THEN strs
             ELSE LET m == merge_yaml_mappings(strs[2])
                  IN  IF IsErr(m) THEN m
                      ELSE Ok([self EXCEPT !.config = m[2]])

(***************************************************************************)
(* lib/ipc.rs                                                              *)
(***************************************************************************)
IPC_SAFE_SIZE == 10485760

\* ZatelIpcMessage::new
new(data) == [data |-> data, log |-> None]

\* from_result losing the error it was given
from_result_drops_error(result) ==
    IF IsOk(result) THEN result[2]
    ELSE new(<<"Error", bug(<<"request failed">>)>>)

\* ZatelIpcMessage::from_result
from_result(result) ==
    IF IsOk(result) THEN result[2] ELSE new(<<"Error", result[2]>>)

\* ZatelIpcMessage::get_data_str
get_data_str(ipc_msg) ==
    IF ipc_msg.data[1] \in {"QueryIfaceInfo", "QueryIfaceInfoReply",
                            "ValidateConf", "ValidateConfReply"}
    THEN Ok(ipc_msg.data[2])
    ELSE Err(invalid_argument(<<"does not holding string in data",
                                ipc_msg.data>>))

\* A frame on a stream. hdr is what the peer has put of the length prefix
\* when read_u32 runs: "ok" the four bytes, "eof" nothing before it closed,
\* "short" one to three bytes before it closed, "ioerr" the read fails
\* otherwise. size is the length in the prefix. body is what read_exact meets:
\* "full" the announced bytes, "eof" none of them before the peer closed,
\* "short" a part of them before it closed, "ioerr" another failure. payload
\* is what the body holds.
Frame(hdr, size, body, payload) ==
    [hdr |-> hdr, size |-> size, body |-> body, payload |-> payload]

\* AsyncReadExt::read_u32 (ipc.rs:158): it reads exactly four bytes, and an
\* end of stream before the fourth is UnexpectedEof
read_u32(frame) ==
    IF frame.hdr \in {"eof", "short"} THEN Err("UnexpectedEof")
    ELSE IF frame.hdr = "ioerr" THEN Err("Other")
    ELSE Ok(frame.size)

\* AsyncReadExt::read_exact (ipc.rs:180): an end of stream before the buffer
\* is full is UnexpectedEof
read_exact(frame) ==
    IF frame.body \in {"eof", "short"} THEN Err("UnexpectedEof")
    ELSE IF frame.body = "ioerr" THEN Err("Other")
    ELSE Ok(frame.payload)

\* ipc_recv_get_size taking the end of the stream for a failure
ipc_recv_get_size_eof_fails(frame) ==
    IF IsErr(read_u32(frame))
    THEN Err(bug(<<"Failed to read message size">>))
    ELSE Ok(read_u32(frame)[2])

\* ipc_recv_get_size
ipc_recv_get_size(frame) ==
    IF IsErr(read_u32(frame))
    THEN IF read_u32(frame)[2] = "UnexpectedEof" THEN Ok(0)
         ELSE Err(bug(<<"Failed to read message size">>))
    ELSE Ok(read_u32(frame)[2])

\* The strings the codec is run on: the empty string, the text YAML reads as
\* null, a word, a text holding a mapping, and a string of IPC_SAFE_SIZE bytes
BigString == "a string of IPC_SAFE_SIZE bytes"

CodecStrings == {"", "~", "eth1", "name: eth1", BigString}

\* str::len
str_len(s) ==
    CASE s = "" -> 0
      [] s = "~" -> 1
      [] s = "eth1" -> 4
      [] s = "name: eth1" -> 10
      [] s = BigString -> IPC_SAFE_SIZE
      [] OTHER -> 16

\* A node of a YAML document: a plain or a quoted scalar, a mapping, a
\* sequence
Plain(s) == <<"plain", s>>

Quoted(s) == <<"quoted", s>>

YMap(entries) == <<"map", entries>>

YSeq(nodes) == <<"seq", nodes>>

\* The emitter of serde_yaml::to_string writing every string plain
need_quotes_never(s) == FALSE

\* The emitter of serde_yaml::to_string (ipc.rs:129) quotes a string that a
\* plain scalar would not give back: the empty string, the null, a text
\* holding ": "
need_quotes(s) == s \in {"", "~", "name: eth1"}

ser_str(s) == IF need_quotes(s) THEN Quoted(s) ELSE Plain(s)

ser_option(o) == IF o = None THEN Plain("~") ELSE ser_str(o[2])

\* #[serde(rename_all = "snake_case")] (error.rs:21, lib/plugin.rs:23)
snake_case(v) ==
    CASE v = "InvalidArgument" -> "invalid_argument"
      [] v = "ZatelBug" -> "zatel_bug"
      [] v = "PluginError" -> "plugin_error"
      [] v = "Query" -> "query"
      [] v = "Apply" -> "apply"
      [] v = "Config" -> "config"

variant_of(name) ==
    CHOOSE v \in ErrorKind \cup {"Query", "Apply", "Config"} :
        snake_case(v) = name

ser_connection(c) ==
    YMap(<< <<"uuid", ser_option(c.uuid)>>, <<"name", ser_option(c.name)>>,
            <<"config", ser_str(c.config)>> >>)

ser_payload(data) ==
    CASE data[1] = "Error" ->
            YMap(<< <<"kind", Plain(snake_case(data[2].kind))>>,
                    <<"msg", ser_str(data[2].msg)>> >>)
      [] data[1] = "QueryPluginInfoReply" ->
            YMap(<< <<"name", ser_str(data[2].name)>>,
                    <<"socket_path", ser_str(data[2].socket_path)>>,
                    <<"capacities",
                      YSeq([k \in 1..Len(data[2].capacities) |->
                               Plain(snake_case(data[2].capacities[k]))])>> >>)
      [] data[1] \in {"SaveConf", "SaveConfReply", "QuerySavedConfReply"} ->
            ser_connection(data[2])
      [] data[1] = "QuerySavedConfAllReply" ->
            YSeq([k \in 1..Len(data[2]) |-> ser_connection(data[2][k])])
      [] OTHER -> ser_str(data[2])

\* A unit variant is written as its name, another one as a mapping holding
\* the name and the payload
ser_data(data) ==
    IF Len(data) = 1 THEN Plain(data[1])
    ELSE YMap(<< <<data[1], ser_payload(data)>> >>)

\* serde_yaml::to_string(message), ipc.rs:129
serialize(message) ==
    YMap(<< <<"data", ser_data(message.data)>>,
            <<"log", IF message.log = None THEN Plain("~")
                     ELSE YSeq(message.log[2])>> >>)

RECURSIVE byte_len(_)
RECURSIVE byte_len_all(_)
\* message_bytes.len(), ipc.rs:138-139
byte_len(node) ==
    IF node[1] \in {"plain", "quoted"} THEN 1 + str_len(node[2])
    ELSE IF node[1] = "seq" THEN 2 + byte_len_all(node[2])
    ELSE 2 + byte_len_all([k \in 1..Len(node[2]) |-> node[2][k][2]])

byte_len_all(nodes) ==
    IF nodes = <<>> THEN 0 ELSE byte_len(nodes[1]) + byte_len_all(Tail(nodes))

IsNull(node) == node[1] = "plain" /\ node[2] = "~"

de_option(node) == IF IsNull(node) THEN None ELSE Some(node[2])

de_connection(node) ==
    ZatelConnection(de_option(node[2][1][2]), de_option(node[2][2][2]),
                    node[2][3][2][2])

de_payload(variant, node) ==
    CASE variant = "Error" ->
            [kind |-> variant_of(node[2][1][2][2]), msg |-> node[2][2][2][2]]
      [] variant = "QueryPluginInfoReply" ->
            [name |-> node[2][1][2][2], socket_path |-> node[2][2][2][2],
             capacities |-> [k \in 1..Len(node[2][3][2][2]) |->
                                variant_of(node[2][3][2][2][k][2])]]
      [] variant \in {"SaveConf", "SaveConfReply", "QuerySavedConfReply"} ->
            de_connection(node)
      [] variant = "QuerySavedConfAllReply" ->
            [k \in 1..Len(node[2]) |-> de_connection(node[2][k])]
      [] OTHER -> node[2]

de_data(node) ==
    IF node[1] \in {"plain", "quoted"} THEN <<node[2]>>
    ELSE <<node[2][1][1], de_payload(node[2][1][1], node[2][1][2])>>

\* serde_yaml::from_slice::<ZatelIpcMessage>, ipc.rs:189, of the bytes that
\* serde_yaml::to_string has written
from_slice(doc) ==
    [data |-> de_data(doc[2][1][2]),
     log |-> IF IsNull(doc[2][2][2]) THEN None ELSE Some(doc[2][2][2][2])]

\* What from_slice makes of the body of a frame: "msg" stands for bytes
\* holding that message, "bytes" for the document ipc_send wrote, anything
\* else does not parse
decoded(payload) ==
    IF payload[1] = "msg" THEN Ok(payload[2])
    ELSE IF payload[1] = "bytes" THEN Ok(from_slice(payload[2]))
    ELSE Err(<<"not a message">>)

\* ipc_recv_get_data returning the Error variant as a message
ipc_recv_get_data_error_as_message(frame) ==
    IF IsErr(read_exact(frame))
    THEN IF read_exact(frame)[2] = "UnexpectedEof"
         THEN Ok(new(<<"ConnectionClosed">>))
         ELSE Err(bug(<<"Failed to read message to buffer">>))
    ELSE IF IsErr(decoded(frame.payload))
    THEN Err(bug(<<"Invalid message recieved">>))
    ELSE decoded(frame.payload)

\* ipc_recv_get_data
ipc_recv_get_data(frame) ==
    IF IsErr(read_exact(frame))
    THEN IF read_exact(frame)[2] = "UnexpectedEof"
         THEN Ok(new(<<"ConnectionClosed">>))
         ELSE Err(bug(<<"Failed to read message to buffer">>))
    ELSE IF IsErr(decoded(frame.payload))
    THEN Err(bug(<<"Invalid message recieved">>))
    ELSE IF decoded(frame.payload)[2].data[1] = "Error"
    THEN Err(decoded(frame.payload)[2].data[2])
    ELSE decoded(frame.payload)

\* A limit that the largest safe size itself exceeds
size_exceeds_limit_inclusive(message_size) == message_size >= IPC_SAFE_SIZE

\* ipc.rs:221
size_exceeds_limit(message_size) == message_size > IPC_SAFE_SIZE

\* ipc_recv
ipc_recv(frame) ==
    LET message_size == ipc_recv_get_size(frame)
    IN  IF IsErr(message_size) THEN message_size
        ELSE IF message_size[2] = 0 THEN Ok(new(<<"ConnectionClosed">>))
        ELSE ipc_recv_get_data(frame)

\* ipc_recv_safe
ipc_recv_safe(frame) ==
    LET message_size == ipc_recv_get_size(frame)
    IN  IF IsErr(message_size) THEN message_size
        ELSE IF message_size[2] = 0 THEN Ok(new(<<"ConnectionClosed">>))
        ELSE IF size_exceeds_limit(message_size[2])
        THEN Err(invalid_argument(<<"message size execeed the limit",
                                    IPC_SAFE_SIZE>>))
        ELSE ipc_recv_get_data(frame)

(***************************************************************************)
(* lib/plugin.rs                                                           *)
(***************************************************************************)
ZatelPluginCapacity == {"Query", "Apply", "Config"}

ZatelPluginInfo(name, capacities) ==
    [name |-> name, capacities |-> capacities]

Pending == <<"Pending">>

\* A selection that takes every registered plugin
select_plugins_all(ps, capacity) == [i \in 1..Len(ps) |-> Pending]

\* plugin.rs:62-67: one ipc_plugin_exec future per plugin holding the capacity
select_plugins(ps, capacity) ==
    [i \in 1..Len(ps) |->
        IF capacity \in ps[i].capacities THEN Pending ELSE Idle]

\* A join that yields the outputs in the order the futures completed
join_all_as_completed(replys_async, completion) ==
    [k \in 1..Len(completion) |-> replys_async[completion[k]]]

\* futures::future::join_all, plugin.rs:68: the outputs are in the order of
\* the futures it was given, whatever the order they completed in
join_all(replys_async, completion) == replys_async

RECURSIVE collect_replys_until_failure(_)
\* A collection that the first failed call ends, with nothing returned
collect_replys_until_failure(replys) ==
    IF replys = <<>> THEN <<>>
    ELSE LET reply_1 == replys[1]
             rest == collect_replys_until_failure(Tail(replys))
         IN  IF reply_1 \in {Idle, Pending} THEN rest
             ELSE IF IsErr(reply_1) THEN <<>>
             ELSE IF IsOk(get_data_str(reply_1[2]))
             THEN <<reply_1[2]>> \o rest
             ELSE rest

RECURSIVE collect_replys(_)
\* plugin.rs:70-85: of the results, in the order of the futures, a reply is
\* kept when it is Ok and get_data_str yields its string; the others are
\* logged and dropped. The daemon reads an element as the reply it came from
\* (zateld.rs:128, 172, 244, 313).
collect_replys(replys) ==
    IF replys = <<>> THEN <<>>
    ELSE LET reply_1 == replys[1]
             rest == collect_replys(Tail(replys))
         IN  IF reply_1 \in {Idle, Pending} THEN rest
             ELSE IF IsOk(reply_1) /\ IsOk(get_data_str(reply_1[2]))
             THEN <<reply_1[2]>> \o rest
             ELSE rest

\* ipc_plugins_exec, once join_all has returned
ipc_plugins_exec(replys) == collect_replys(replys)

(***************************************************************************)
(* daemon/zateld.rs: the handlers                                          *)
(***************************************************************************)
\* gen_connection_name
gen_connection_name(config) ==
    LET yml_value == from_str(config)
    IN  IF IsOk(yml_value) /\ as_mapping(yml_value[2]) # None
           /\ contains_key(as_mapping(yml_value[2])[2], "name")
           /\ map_get(as_mapping(yml_value[2])[2], "name")[1] = "Str"
        THEN map_get(as_mapping(yml_value[2])[2], "name")[2]
        ELSE "unknown"

RECURSIVE extract_strs_from_ipc_msg(_)
\* extract_strs_from_ipc_msg
extract_strs_from_ipc_msg(ipc_msgs) ==
    IF ipc_msgs = <<>> THEN <<>>
    ELSE LET s == get_data_str(ipc_msgs[1])
             rest == extract_strs_from_ipc_msg(Tail(ipc_msgs))
         IN  IF IsOk(s) THEN <<s[2]>> \o rest ELSE rest

\* SelectSeq by a variant of ZatelIpcData: the payloads, in order
RECURSIVE payloads_of(_, _)
payloads_of(ipc_msgs, variant) ==
    IF ipc_msgs = <<>> THEN <<>>
    ELSE LET rest == payloads_of(Tail(ipc_msgs), variant)
         IN  IF ipc_msgs[1].data[1] = variant
             THEN <<ipc_msgs[1].data[2]>> \o rest
             ELSE rest

\* handle_query, zateld.rs:126-132, once the fan-out has been joined
handle_query(replys) ==
    LET reply_ipc_msg == ipc_plugins_exec(replys)
        reply_strs == extract_strs_from_ipc_msg(reply_ipc_msg)
        m == merge_yaml_mappings(reply_strs)
    IN  IF IsErr(m) THEN m
        ELSE Ok(new(<<"QueryIfaceInfoReply", m[2]>>))

\* validate_conf whose verdict is not looked at
validate_conf_unchecked(conf, desire_yaml_mapping, replys) == Ok(<<>>)

\* validate_conf accepting replies that cover a part of the desired document
validate_conf_partial(conf, desire_yaml_mapping, replys) ==
    LET merged_reply ==
            merge_yaml_mappings(
                extract_strs_from_ipc_msg(ipc_plugins_exec(replys)))
    IN  IF IsErr(merged_reply) THEN merged_reply
        ELSE LET validated == from_str(merged_reply[2])[2]
                 wanted == IF desire_yaml_mapping[1] = "Map"
                           THEN desire_yaml_mapping[2] ELSE <<>>
             IN  IF \E i \in 1..Len(validated[2]) :
                        \A j \in 1..Len(wanted) : wanted[j] # validated[2][i]
                 THEN Err(invalid_argument(
                          <<"Invalid config", merged_reply[2], conf>>))
                 ELSE Ok(<<>>)

\* validate_conf, zateld.rs:207-230, once the fan-out has been joined
validate_conf(conf, desire_yaml_mapping, replys) ==
    LET reply_ipc_msgs == ipc_plugins_exec(replys)
        reply_strs == extract_strs_from_ipc_msg(reply_ipc_msgs)
        merged_reply == merge_yaml_mappings(reply_strs)
    IN  IF IsErr(merged_reply) THEN merged_reply
        ELSE LET validated_yaml_mapping == from_str(merged_reply[2])
             IN  IF IsErr(validated_yaml_mapping)
                 THEN Err(bug(<<"This should never happen">>))
                 ELSE IF ~value_eq(validated_yaml_mapping[2],
                                   desire_yaml_mapping)
                 THEN Err(invalid_argument(
                          <<"Invalid config", merged_reply[2], conf>>))
                 ELSE Ok(<<>>)

\* handle_save_conf, zateld.rs:149-163: uuid and name when not defined
assign_identity(connection, new_v4) ==
    [connection EXCEPT
        !.uuid = IF connection.uuid = None THEN Some(new_v4) ELSE @,
        !.name = IF connection.name = None
                 THEN Some(gen_connection_name(connection.config)) ELSE @]

\* handle_save_conf without the check that a plugin has saved
handle_save_conf_unchecked(con, replys) ==
    LET reply_ztl_cons ==
            payloads_of(ipc_plugins_exec(replys), "SaveConfReply")
        m == merge_from(con, reply_ztl_cons)
    IN  IF IsErr(m) THEN m ELSE Ok(new(<<"SaveConfReply", m[2]>>))

\* handle_save_conf, zateld.rs:170-183, once the SaveConf fan-out is joined
handle_save_conf(con, replys) ==
    LET reply_ipc_msgs == ipc_plugins_exec(replys)
        reply_ztl_cons == payloads_of(reply_ipc_msgs, "SaveConfReply")
    IN  IF Len(reply_ztl_cons) = 0
        THEN Err(plugin_error(<<"No plugin has saved desired config">>))
        ELSE LET m == merge_from(con, reply_ztl_cons)
             IN  IF IsErr(m) THEN m
                 ELSE Ok(new(<<"SaveConfReply", m[2]>>))

\* handle_query_saved_conf, zateld.rs:311-328
handle_query_saved_conf(uuid, replys) ==
    LET reply_ipc_msgs == ipc_plugins_exec(replys)
        reply_ztl_cons == payloads_of(reply_ipc_msgs, "QuerySavedConfReply")
    IN  IF Len(reply_ztl_cons) = 0
        THEN Err(invalid_argument(<<"Connection not found", uuid>>))
        ELSE LET m == merge_from(reply_ztl_cons[1], reply_ztl_cons)
             IN  IF IsErr(m) THEN m
                 ELSE Ok(new(<<"QuerySavedConfReply", m[2]>>))

RECURSIVE flatten(_)
flatten(lists) ==
    IF lists = <<>> THEN <<>> ELSE lists[1] \o flatten(Tail(lists))

RECURSIVE dedup_by_uuid(_, _)
\* zateld.rs:247-261: a record without uuid is skipped, and of the records
\* holding one uuid the first is kept
dedup_by_uuid(ztl_cons, all_ztl_cons) ==
    IF ztl_cons = <<>> THEN all_ztl_cons
    ELSE LET c == ztl_cons[1]
         IN  IF c.uuid = None
                \/ \E i \in 1..Len(all_ztl_cons) : all_ztl_cons[i].uuid = c.uuid
             THEN dedup_by_uuid(Tail(ztl_cons), all_ztl_cons)
             ELSE dedup_by_uuid(Tail(ztl_cons), Append(all_ztl_cons, c))

\* The orders in which a HashMap may be iterated
Orders(s) ==
    { t \in [1..Len(s) -> {s[i] : i \in 1..Len(s)}] :
        \A i \in 1..Len(s) : \E j \in 1..Len(s) : t[j] = s[i] }

\* handle_query_saved_conf_all, zateld.rs:242-271: the replies it may give
handle_query_saved_conf_all(replys) ==
    LET reply_ipc_msgs == ipc_plugins_exec(replys)
        lists == payloads_of(reply_ipc_msgs, "QuerySavedConfAllReply")
        all_ztl_cons == dedup_by_uuid(flatten(lists), <<>>)
    IN  { Ok(new(<<"QuerySavedConfAllReply", l>>)) : l \in Orders(all_ztl_cons) }

(***************************************************************************)
(* The environment: the registry, the client's frames, the plugins'        *)
(* answers.                                                                *)
(***************************************************************************)
\* The capacities a plugin reports: nispor (plugin_nispor.rs:115), conman
\* (plugin_conman.rs:118), and a plugin holding both Apply and Config
CapacitySets == { {"Query", "Apply"}, {"Config"}, {"Apply", "Config"} }

Registries ==
    UNION { { [i \in 1..k |-> ZatelPluginInfo(i, caps[i])] :
                caps \in [1..k -> CapacitySets] } : k \in 0..MaxPlugins }

ClientConfigs ==
    { Flow(<< <<"a", Int1>>, <<"b", Int2>> >>),
      Block(<< <<"name", <<"Str", "eth1">> >> >>),
      Block(<< <<"name", <<"Str", "">> >> >>),
      <<"bad">> }

ClientConnections ==
    { ZatelConnection(id[1], id[2], config) :
        id \in { <<None, None>>, <<Some("u1"), Some("n1")>>,
                 <<Some(""), Some("")>> },
        config \in ClientConfigs }

ClientRequests ==
    { <<"QueryIfaceInfo", "eth1">>, <<"QuerySavedConf", "u1">>,
      <<"QuerySavedConfAll">>, <<"QueryPluginInfo">>,
      <<"ValidateConfReply", <<"empty">> >>,
      <<"Error", plugin_error(<<"sent by the client">>)>> }
    \cup { <<"SaveConf", c>> : c \in ClientConnections }

ClientFrames ==
    { Frame("ok", 64, "full", <<"msg", new(d)>>) : d \in ClientRequests }
    \cup { Frame("eof", 0, "eof", <<"nothing">>),
           Frame("ioerr", 0, "eof", <<"nothing">>),
           Frame("ok", 0, "full", <<"nothing">>),
           Frame("ok", IPC_SAFE_SIZE + 1, "full",
                 <<"msg", new(<<"QuerySavedConfAll">>)>>),
           Frame("ok", IPC_SAFE_SIZE, "full",
                 <<"msg", new(<<"QuerySavedConfAll">>)>>),
           Frame("ok", 64, "eof", <<"nothing">>),
           Frame("ok", 64, "ioerr", <<"nothing">>),
           Frame("ok", 64, "full", <<"garbage">>) }

\* What ipc_plugin_exec returns when the plugin does not answer the request:
\* the connection is refused, the plugin replies the Error variant (ipc_recv
\* makes it an Err), or it replies ZatelIpcData::None (plugin_foo.rs:121)
PluginFailures ==
    { Err(bug(<<"Failed to connect socket">>)),
      Err(plugin_error(<<"replied by the plugin">>)),
      Ok(new(<<"None">>)) }

Items(text) ==
    IF IsOk(from_str(text)) /\ as_mapping(from_str(text)[2]) # None
    THEN as_mapping(from_str(text)[2])[2] ELSE <<>>

\* A plugin's view of a document: one of its entries, all of it, an entry
\* with another value, or the empty text (plugin_nispor.rs:169)
PluginTexts(text) ==
    LET items == Items(text)
    IN  { Block(<<items[i]>>) : i \in 1..Len(items) }
        \cup { Block(<< <<items[i][1], Int3>> >>) : i \in 1..Len(items) \cap {1} }
        \cup { Block(items), <<"empty">> }

QueryTexts ==
    { Block(<< <<"a", Int1>> >>), Block(<< <<"a", Int2>> >>),
      Block(<< <<"b", Int2>> >>), <<"empty">> }

\* The records a Config plugin may echo for the record it was sent
EchoedConnections(c) ==
    { c,
      [c EXCEPT !.uuid = Some("other-uuid")],
      [c EXCEPT !.name = Some("other-name")],
      [c EXCEPT !.uuid = None, !.name = None],
      [c EXCEPT !.config = Block(<< <<"saved", Int1>> >>)] }
    \cup { [c EXCEPT !.config = t] : t \in PluginTexts(c.config) \ {<<"empty">>} }

SavedConnections ==
    { ZatelConnection(Some("u1"), Some("n1"), Block(<< <<"a", Int1>> >>)),
      ZatelConnection(Some("u1"), Some("n1"), Block(<< <<"a", Int2>> >>)),
      ZatelConnection(Some("u2"), Some("n2"), Block(<< <<"b", Int2>> >>)) }

\* What ipc_plugin_exec may return for a request
PluginOutcomes(data) ==
    PluginFailures \cup
    IF data[1] = "QueryIfaceInfo"
    THEN { Ok(new(<<"QueryIfaceInfoReply", t>>)) : t \in QueryTexts }
    ELSE IF data[1] = "ValidateConf"
    THEN { Ok(new(<<"ValidateConfReply", t>>)) : t \in PluginTexts(data[2]) }
    ELSE IF data[1] = "SaveConf"
    THEN { Ok(new(<<"SaveConfReply", c>>)) : c \in EchoedConnections(data[2]) }
    ELSE IF data[1] = "QuerySavedConf"
    THEN { Ok(new(<<"QuerySavedConfReply", c>>)) : c \in SavedConnections }
    ELSE { Ok(new(<<"QuerySavedConfAllReply", l>>)) :
             l \in SeqsUpTo(SavedConnections, 1) }

\* The value Uuid::new_v4 yields (zateld.rs:155)
NewUuids == { "new-v4" }

(***************************************************************************)
(* daemon/zateld.rs: handle_client, one session                            *)
(***************************************************************************)
NoCalls == [i \in 1..Len(plugins) |-> Idle]

\* A join that a timeout ends whatever is pending
Joined_after_timeout == TRUE

\* A join that the first completed call ends
Joined_by_first == \E i \in 1..Len(plugins) : calls[i] \notin {Idle, Pending}

Joined == \A i \in 1..Len(plugins) : calls[i] # Pending

\* The calls a fan-out starts are added to what each plugin was called with
Called(started, variant) ==
    [i \in 1..Len(plugins) |->
        IF started[i] = Pending THEN contacted[i] \cup {variant}
        ELSE contacted[i]]

Init ==
    /\ plugins \in Registries
    /\ pc = "Reading"
    /\ nrecv = 0
    /\ req = Idle
    /\ desire = Idle
    /\ ztl_con = Idle
    /\ calls = NoCalls
    /\ contacted = [i \in 1..Len(plugins) |-> {}]
    /\ hres = Idle
    /\ reply = Idle
    /\ sends = <<>>
    /\ last_send = Idle
    /\ closedBy = "open"
    /\ yml_strs = <<>>
    /\ merged = NotRun
    /\ FanIdle
    /\ RecvIdle
    /\ LoadIdle
    /\ MainIdle
    /\ ConmanIdle

\* zateld.rs:72-79 and 109-113: the stream is closed, or ipc_recv_safe fails
RecvClose ==
    /\ pc = "Reading"
    /\ \E frame \in ClientFrames :
         LET r == ipc_recv_safe(frame)
         IN  /\ IF IsErr(r) THEN TRUE ELSE r[2].data[1] = "ConnectionClosed"
             /\ closedBy' = IF IsErr(r) THEN "RecvError" ELSE "ConnectionClosed"
    /\ pc' = "Closed"
    /\ UNCHANGED <<fanvars, recvvars, loadvars, mainvars, conmanvars, plugins, nrecv, req, desire, ztl_con, calls, contacted, hres,
                   reply, sends, last_send, yml_strs, merged>>

\* The request ipc_recv_safe may return, of one variant
Received(variant) ==
    { ipc_recv_safe(frame)[2].data : frame \in
        { f \in ClientFrames : /\ IsOk(ipc_recv_safe(f))
                               /\ ipc_recv_safe(f)[2].data[1] = variant } }

\* A session reading the next request before the reply was sent
Dispatch_before_reply(data) ==
    /\ pc \in {"Reading", "Sending"}
    /\ nrecv < MaxRequests
    /\ nrecv' = nrecv + 1
    /\ req' = data
    /\ last_send' = Idle
    /\ UNCHANGED <<fanvars, recvvars, loadvars, mainvars, conmanvars, plugins, sends, closedBy, yml_strs, merged>>

\* A session that reads a request after it has closed
Dispatch_after_close(data) ==
    /\ pc \in {"Reading", "Closed"}
    /\ nrecv < MaxRequests
    /\ nrecv' = nrecv + 1
    /\ req' = data
    /\ last_send' = Idle
    /\ UNCHANGED <<fanvars, recvvars, loadvars, mainvars, conmanvars, plugins, sends, closedBy, yml_strs, merged>>

\* What every dispatch of a request does to the session
Dispatch(data) ==
    /\ pc = "Reading"
    /\ nrecv < MaxRequests
    /\ nrecv' = nrecv + 1
    /\ req' = data
    /\ last_send' = Idle
    /\ UNCHANGED <<fanvars, recvvars, loadvars, mainvars, conmanvars, plugins, sends, closedBy, yml_strs, merged>>

\* The handler has returned: zateld.rs:74-75
Return(r) ==
    /\ hres' = r
    /\ reply' = from_result(r)
    /\ pc' = "Sending"

\* zateld.rs:80-82, handle_query up to the fan-out
RecvQuery ==
    \E data \in Received("QueryIfaceInfo") :
        /\ Dispatch(data)
        /\ pc' = "Query"
        /\ calls' = select_plugins(plugins, "Query")
        /\ contacted' = Called(calls', "QueryIfaceInfo")
        /\ UNCHANGED <<desire, ztl_con, hres, reply>>

\* zateld.rs:83-85, handle_save_conf and validate_conf up to the fan-out
RecvSaveConf ==
    \E data \in Received("SaveConf") :
        /\ Dispatch(data)
        /\ LET parsed == from_str(data[2].config)
           IN  IF IsErr(parsed)
               THEN /\ Return(Err(invalid_argument(
                                 <<"Invalid format of YAML", parsed[2]>>)))
                    /\ UNCHANGED <<desire, ztl_con, calls, contacted>>
               ELSE /\ pc' = "Validate"
                    /\ desire' = parsed[2]
                    /\ calls' = select_plugins(plugins, "Apply")
                    /\ contacted' = Called(calls', "ValidateConf")
                    /\ UNCHANGED <<ztl_con, hres, reply>>

\* zateld.rs:86-88
RecvQuerySavedConf ==
    \E data \in Received("QuerySavedConf") :
        /\ Dispatch(data)
        /\ pc' = "QuerySaved"
        /\ calls' = select_plugins(plugins, "Config")
        /\ contacted' = Called(calls', "QuerySavedConf")
        /\ UNCHANGED <<desire, ztl_con, hres, reply>>

\* zateld.rs:89-91
RecvQuerySavedConfAll ==
    \E data \in Received("QuerySavedConfAll") :
        /\ Dispatch(data)
        /\ pc' = "QuerySavedAll"
        /\ calls' = select_plugins(plugins, "Config")
        /\ contacted' = Called(calls', "QuerySavedConfAll")
        /\ UNCHANGED <<desire, ztl_con, hres, reply>>

\* zateld.rs:92-103: any other variant
RecvUnknown ==
    \E frame \in ClientFrames :
        LET r == ipc_recv_safe(frame)
        IN  /\ IsOk(r)
            /\ r[2].data[1] \notin {"ConnectionClosed", "QueryIfaceInfo",
                   "SaveConf", "QuerySavedConf", "QuerySavedConfAll"}
            /\ Dispatch(r[2].data)
            /\ Return(Ok(new(<<"Error", invalid_argument(
                               <<"Invalid IPC message", r[2]>>)>>)))
            /\ UNCHANGED <<desire, ztl_con, calls, contacted>>

\* The request the fan-out in flight sends
FanoutRequest ==
    IF pc = "Validate" THEN <<"ValidateConf", req[2].config>>
    ELSE IF pc = "Save" THEN <<"SaveConf", ztl_con[2]>>
    ELSE req

\* plugin.rs:47-55, ipc_plugin_exec: one future of the fan-out completes
PluginExec ==
    /\ pc \in {"Query", "Validate", "Save", "QuerySaved", "QuerySavedAll"}
    /\ \E i \in 1..Len(plugins) :
         /\ calls[i] = Pending
         /\ \E o \in PluginOutcomes(FanoutRequest) :
              calls' = [calls EXCEPT ![i] = o]
    /\ UNCHANGED <<fanvars, recvvars, loadvars, mainvars, conmanvars, plugins, pc, nrecv, req, desire, ztl_con, contacted, hres,
                   reply, sends, last_send, closedBy, yml_strs, merged>>

\* handle_query after join_all
QueryDone ==
    /\ pc = "Query"
    /\ Joined
    /\ Return(handle_query(calls))
    /\ UNCHANGED <<fanvars, recvvars, loadvars, mainvars, conmanvars, plugins, nrecv, req, desire, ztl_con, calls, contacted,
                   sends, last_send, closedBy, yml_strs, merged>>

\* handle_save_conf, zateld.rs:147-168: validate_conf after join_all, then
\* the uuid and the name, then the SaveConf fan-out
ValidateDone ==
    /\ pc = "Validate"
    /\ Joined
    /\ LET v == validate_conf(req[2].config, desire, calls)
       IN  IF IsErr(v)
           THEN /\ Return(v)
                /\ UNCHANGED <<ztl_con, calls, contacted>>
           ELSE /\ \E u \in NewUuids :
                     ztl_con' = <<"Set", assign_identity(req[2], u)>>
                /\ pc' = "Save"
                /\ calls' = select_plugins(plugins, "Config")
                /\ contacted' = Called(calls', "SaveConf")
                /\ UNCHANGED <<hres, reply>>
    /\ UNCHANGED <<fanvars, recvvars, loadvars, mainvars, conmanvars, plugins, nrecv, req, desire, sends, last_send, closedBy,
                   yml_strs, merged>>

\* handle_save_conf after the SaveConf fan-out
SaveDone ==
    /\ pc = "Save"
    /\ Joined
    /\ Return(handle_save_conf(ztl_con[2], calls))
    /\ UNCHANGED <<fanvars, recvvars, loadvars, mainvars, conmanvars, plugins, nrecv, req, desire, ztl_con, calls, contacted,
                   sends, last_send, closedBy, yml_strs, merged>>

\* handle_query_saved_conf after join_all
QuerySavedDone ==
    /\ pc = "QuerySaved"
    /\ Joined
    /\ Return(handle_query_saved_conf(req[2], calls))
    /\ UNCHANGED <<fanvars, recvvars, loadvars, mainvars, conmanvars, plugins, nrecv, req, desire, ztl_con, calls, contacted,
                   sends, last_send, closedBy, yml_strs, merged>>

\* handle_query_saved_conf_all after join_all
QuerySavedAllDone ==
    /\ pc = "QuerySavedAll"
    /\ Joined
    /\ \E r \in handle_query_saved_conf_all(calls) : Return(r)
    /\ UNCHANGED <<fanvars, recvvars, loadvars, mainvars, conmanvars, plugins, nrecv, req, desire, ztl_con, calls, contacted,
                   sends, last_send, closedBy, yml_strs, merged>>

\* ipc_send as the session sees it: it succeeds or it fails
ipc_send_results == { Ok(<<>>), Err(bug(<<"Failed to write message">>)) }

\* zateld.rs:105-107: the reply is sent, and the loop reads again
SendReply ==
    /\ pc = "Sending"
    /\ \E r \in ipc_send_results :
         last_send' = <<"Sent", reply, r>>
    /\ sends' = Append(sends, nrecv)
    /\ pc' = "Reading"
    /\ req' = Idle
    /\ desire' = Idle
    /\ ztl_con' = Idle
    /\ calls' = NoCalls
    /\ contacted' = [i \in 1..Len(plugins) |-> {}]
    /\ hres' = Idle
    /\ reply' = Idle
    /\ UNCHANGED <<fanvars, recvvars, loadvars, mainvars, conmanvars, plugins, nrecv, closedBy, yml_strs, merged>>

Next ==
    \/ RecvClose
    \/ RecvQuery
    \/ RecvSaveConf
    \/ RecvQuerySavedConf
    \/ RecvQuerySavedConfAll
    \/ RecvUnknown
    \/ PluginExec
    \/ QueryDone
    \/ ValidateDone
    \/ SaveDone
    \/ QuerySavedDone
    \/ QuerySavedAllDone
    \/ SendReply

Spec == Init /\ [][Next]_vars

(***************************************************************************)
(* daemon/zateld.rs: main, its accept loop and the sessions it spawns      *)
(***************************************************************************)
\* A clone that leaves the last plugin out
plugins_clone_short(ps) == SubSeq(ps, 1, Len(ps) - 1)

\* zateld.rs:50: plugins.clone()
plugins_clone(ps) == ps

\* zateld.rs:51-53: the task spawned for a connection owns its stream and
\* its clone of the registry
Client(ps) ==
    [plugins |-> ps, pc |-> "Reading", req |-> Idle,
     calls |-> [i \in 1..Len(ps) |-> Idle], reply |-> Idle]

\* The frames a client of these sessions sends
MainFrames ==
    { Frame("ok", 64, "full", <<"msg", new(d)>>) :
        d \in { <<"QueryIfaceInfo", "eth1">>, <<"QuerySavedConfAll">>,
                <<"QueryPluginInfo">> } }
    \cup { Frame("eof", 0, "eof", <<"nothing">>) }

\* What ipc_plugin_exec returns to these sessions: a failure or a reply
MainOutcomes(data) ==
    { Err(bug(<<"Failed to connect socket">>)) } \cup
    IF data[1] = "QueryIfaceInfo"
    THEN { Ok(new(<<"QueryIfaceInfoReply", Block(<< <<"a", Int1>> >>)>>)) }
    ELSE { Ok(new(<<"QuerySavedConfAllReply", <<>> >>)) }

MainInit ==
    /\ plugins \in Registries
    /\ clients = <<>>
    /\ pc = "accept"
    /\ nrecv = 0
    /\ req = Idle
    /\ desire = Idle
    /\ ztl_con = Idle
    /\ calls = <<>>
    /\ contacted = <<>>
    /\ hres = Idle
    /\ reply = Idle
    /\ sends = <<>>
    /\ last_send = Idle
    /\ closedBy = "open"
    /\ yml_strs = <<>>
    /\ merged = NotRun
    /\ FanIdle
    /\ RecvIdle
    /\ LoadIdle
    /\ ConmanIdle

\* What no step of main or of a session touches
MainFrame ==
    UNCHANGED <<pc, nrecv, req, desire, ztl_con, calls, contacted, hres, reply,
                sends, last_send, closedBy, yml_strs, merged, fanvars,
                recvvars, loadvars, conmanvars>>

\* zateld.rs:45-58: listener.accept() returns a connection and a session is
\* spawned, or it fails and the loop goes on
MainAccept ==
    /\ Len(clients) < MaxSessions
    /\ \E accepted \in BOOLEAN :
         clients' = IF accepted
                    THEN Append(clients, Client(plugins_clone(plugins)))
                    ELSE clients
    /\ UNCHANGED plugins
    /\ MainFrame

\* zateld.rs:72-103: a session reads a frame; it closes, starts the fan-out
\* of its handler, or has the reply to an unknown request
ClientRecv ==
    \E s \in 1..Len(clients) :
    /\ clients[s].pc = "Reading"
    /\ \E frame \in MainFrames :
         LET r == ipc_recv_safe(frame)
             c == clients[s]
         IN  clients' = [clients EXCEPT ![s] =
                IF IsErr(r) THEN [c EXCEPT !.pc = "Closed"]
                ELSE IF r[2].data[1] = "ConnectionClosed"
                THEN [c EXCEPT !.pc = "Closed"]
                ELSE IF r[2].data[1] = "QueryIfaceInfo"
                THEN [c EXCEPT !.pc = "Query", !.req = r[2].data,
                               !.calls = select_plugins(c.plugins, "Query")]
                ELSE IF r[2].data[1] = "QuerySavedConfAll"
                THEN [c EXCEPT !.pc = "QuerySavedAll", !.req = r[2].data,
                               !.calls = select_plugins(c.plugins, "Config")]
                ELSE [c EXCEPT !.pc = "Sending", !.req = r[2].data,
                               !.reply = new(<<"Error", invalid_argument(
                                             <<"Invalid IPC message", r[2]>>)>>)]]
    /\ UNCHANGED plugins
    /\ MainFrame

\* plugin.rs:47-55: one call of a session's fan-out completes
ClientPluginExec ==
    \E s \in 1..Len(clients) :
    /\ clients[s].pc \in {"Query", "QuerySavedAll"}
    /\ \E i \in 1..Len(clients[s].plugins) :
         /\ clients[s].calls[i] = Pending
         /\ \E o \in MainOutcomes(clients[s].req) :
              clients' = [clients EXCEPT ![s].calls[i] = o]
    /\ UNCHANGED plugins
    /\ MainFrame

\* The handler of a session returns once its fan-out is joined
ClientDone ==
    \E s \in 1..Len(clients) :
    /\ clients[s].pc \in {"Query", "QuerySavedAll"}
    /\ \A i \in 1..Len(clients[s].plugins) : clients[s].calls[i] # Pending
    /\ \E r \in IF clients[s].pc = "Query"
                THEN { handle_query(clients[s].calls) }
                ELSE handle_query_saved_conf_all(clients[s].calls) :
         clients' = [clients EXCEPT ![s].pc = "Sending",
                                    ![s].reply = from_result(r)]
    /\ UNCHANGED plugins
    /\ MainFrame

\* zateld.rs:105-107: the reply is sent and the session reads again
ClientSend ==
    \E s \in 1..Len(clients) :
    /\ clients[s].pc = "Sending"
    /\ clients' = [clients EXCEPT ![s] = Client(clients[s].plugins)]
    /\ UNCHANGED plugins
    /\ MainFrame

MainNext ==
    \/ MainAccept
    \/ ClientRecv
    \/ ClientPluginExec
    \/ ClientDone
    \/ ClientSend

MainSpec == MainInit /\ [][MainNext]_vars

(***************************************************************************)
(* lib/plugin.rs: ipc_plugins_exec alone, for every registry, capacity and  *)
(* request.                                                                *)
(***************************************************************************)
FanoutRequests ==
    { <<"QueryIfaceInfo", "eth1">>,
      <<"ValidateConf", Flow(<< <<"a", Int1>>, <<"b", Int2>> >>)>>,
      <<"SaveConf", ZatelConnection(Some("u1"), Some("n1"),
                                    Block(<< <<"a", Int1>> >>))>>,
      <<"QuerySavedConf", "u1">>,
      <<"QuerySavedConfAll">> }

FanoutInit ==
    /\ plugins \in Registries
    /\ fan_cap \in ZatelPluginCapacity
    /\ req \in FanoutRequests
    /\ pc = "select"
    /\ calls = NoCalls
    /\ contacted = [i \in 1..Len(plugins) |-> {}]
    /\ fan_res = Idle
    /\ finished = <<>>
    /\ nrecv = 0
    /\ desire = Idle
    /\ ztl_con = Idle
    /\ hres = Idle
    /\ reply = Idle
    /\ sends = <<>>
    /\ last_send = Idle
    /\ closedBy = "open"
    /\ yml_strs = <<>>
    /\ merged = NotRun
    /\ RecvIdle
    /\ LoadIdle
    /\ MainIdle
    /\ ConmanIdle

\* plugin.rs:61-67: a future is made for each plugin holding the capacity
FanoutSelect ==
    /\ pc = "select"
    /\ calls' = select_plugins(plugins, fan_cap)
    /\ contacted' = Called(calls', req[1])
    /\ pc' = "join_all"
    /\ UNCHANGED <<plugins, nrecv, req, desire, ztl_con, hres, reply, sends,
                   last_send, closedBy, yml_strs, merged, fanvars, recvvars,
                   loadvars, mainvars, conmanvars>>

\* plugin.rs:47-55: one of the futures join_all polls completes
FanoutExec ==
    /\ pc = "join_all"
    /\ \E i \in 1..Len(plugins) :
         /\ calls[i] = Pending
         /\ \E o \in PluginOutcomes(req) : calls' = [calls EXCEPT ![i] = o]
         /\ finished' = Append(finished, i)
    /\ UNCHANGED <<plugins, pc, nrecv, req, desire, ztl_con, contacted, hres,
                   reply, sends, last_send, closedBy, yml_strs, merged, fan_cap,
                   fan_res, recvvars, loadvars, mainvars, conmanvars>>

\* plugin.rs:68-85: join_all returns, the replies are collected and returned
FanoutReturn ==
    /\ pc = "join_all"
    /\ Joined
    /\ fan_res' = ipc_plugins_exec(join_all(calls, finished))
    /\ pc' = "returned"
    /\ UNCHANGED <<plugins, nrecv, req, desire, ztl_con, calls, contacted, hres,
                   reply, sends, last_send, closedBy, yml_strs, merged,
                   fan_cap, finished, recvvars, loadvars, mainvars, conmanvars>>

FanoutNext ==
    \/ FanoutSelect
    \/ FanoutExec
    \/ FanoutReturn

\* join_all returns once every future has completed, and the runtime then
\* resumes the task that awaits it
FanoutSpec == FanoutInit /\ [][FanoutNext]_vars /\ WF_vars(FanoutReturn)

(***************************************************************************)
(* lib/ipc.rs: ipc_recv, ipc_recv_safe and ipc_exec on one stream, step by  *)
(* step.                                                                   *)
(***************************************************************************)
RecvModes == {"ipc_recv", "ipc_recv_safe", "ipc_exec"}

WireErrors ==
    { invalid_argument(<<"sent by the peer">>),
      plugin_error(<<"sent by the peer">>) }

WirePayloads ==
    { <<"garbage">>,
      <<"msg", new(<<"QueryPluginInfo">>)>>,
      <<"msg", new(<<"QueryIfaceInfoReply", Block(<< <<"a", Int1>> >>)>>)>>,
      <<"msg", new(<<"ConnectionClosed">>)>> }
    \cup { <<"msg", new(<<"Error", e>>)>> : e \in WireErrors }

WireSizes ==
    { 0, 1, IPC_SAFE_SIZE - 1, IPC_SAFE_SIZE, IPC_SAFE_SIZE + 1,
      2 * IPC_SAFE_SIZE }

WireFrames ==
    { Frame(hdr, size, body, payload) :
        hdr \in {"ok", "eof", "short", "ioerr"},
        size \in WireSizes,
        body \in {"full", "eof", "short", "ioerr"},
        payload \in WirePayloads }

RecvInit ==
    /\ stream \in WireFrames
    /\ mode \in RecvModes
    /\ pc = IF mode = "ipc_exec" THEN "send" ELSE "get_size"
    /\ msg_size = 0
    /\ body_reads = 0
    /\ rres = Idle
    /\ plugins = <<>>
    /\ nrecv = 0
    /\ req = Idle
    /\ desire = Idle
    /\ ztl_con = Idle
    /\ calls = <<>>
    /\ contacted = <<>>
    /\ hres = Idle
    /\ reply = Idle
    /\ sends = <<>>
    /\ last_send = Idle
    /\ closedBy = "open"
    /\ yml_strs = <<>>
    /\ merged = NotRun
    /\ FanIdle
    /\ LoadIdle
    /\ MainIdle
    /\ ConmanIdle

\* ipc_exec, ipc.rs:234: ipc_send(stream, message).await?
ExecSend ==
    /\ pc = "send"
    /\ \E r \in ipc_send_results :
         IF IsErr(r)
         THEN rres' = r /\ pc' = "recv_done"
         ELSE rres' = rres /\ pc' = "get_size"
    /\ UNCHANGED <<plugins, nrecv, req, desire, ztl_con, calls, contacted, hres,
                   reply, sends, last_send, closedBy, yml_strs, merged, fanvars,
                   stream, mode, msg_size, body_reads, loadvars, mainvars, conmanvars>>

\* ipc.rs:205-208 and 217-226: the size is read and looked at
RecvGetSize ==
    /\ pc = "get_size"
    /\ LET message_size == ipc_recv_get_size(stream)
       IN  IF IsErr(message_size)
           THEN rres' = message_size /\ pc' = "recv_done" /\ msg_size' = msg_size
           ELSE IF message_size[2] = 0
           THEN /\ rres' = Ok(new(<<"ConnectionClosed">>))
                /\ pc' = "recv_done"
                /\ msg_size' = msg_size
           ELSE IF mode = "ipc_recv_safe" /\ size_exceeds_limit(message_size[2])
           THEN /\ rres' = Err(invalid_argument(
                               <<"message size execeed the limit",
                                 IPC_SAFE_SIZE>>))
                /\ pc' = "recv_done"
                /\ msg_size' = msg_size
           ELSE /\ msg_size' = message_size[2]
                /\ pc' = "get_data"
                /\ rres' = rres
    /\ UNCHANGED <<plugins, nrecv, req, desire, ztl_con, calls, contacted, hres,
                   reply, sends, last_send, closedBy, yml_strs, merged, fanvars,
                   stream, mode, body_reads, loadvars, mainvars, conmanvars>>

\* ipc.rs:209 and 227: ipc_recv_get_data(stream, message_size)
RecvGetData ==
    /\ pc = "get_data"
    /\ body_reads' = body_reads + 1
    /\ rres' = ipc_recv_get_data(stream)
    /\ pc' = "recv_done"
    /\ UNCHANGED <<plugins, nrecv, req, desire, ztl_con, calls, contacted, hres,
                   reply, sends, last_send, closedBy, yml_strs, merged, fanvars,
                   stream, mode, msg_size, loadvars, mainvars, conmanvars>>

RecvNext ==
    \/ ExecSend
    \/ RecvGetSize
    \/ RecvGetData

RecvSpec == RecvInit /\ [][RecvNext]_vars

(***************************************************************************)
(* daemon/zateld.rs: handle_client with its ipc_recv_safe step by step, so *)
(* that the frame a request came in is part of the state: stream is the    *)
(* frame being read, or the one the request in flight was read from.       *)
(***************************************************************************)
ServeInit == Init

\* zateld.rs:72: the loop calls ipc_recv_safe on what the client sent next
ServeRead ==
    /\ pc = "Reading"
    /\ nrecv < MaxRequests
    /\ stream' \in ClientFrames
    /\ mode' = "ipc_recv_safe"
    /\ msg_size' = 0
    /\ body_reads' = 0
    /\ rres' = Idle
    /\ pc' = "get_size"
    /\ UNCHANGED <<plugins, nrecv, req, desire, ztl_con, calls, contacted, hres,
                   reply, sends, last_send, closedBy, yml_strs, merged, fanvars,
                   loadvars, mainvars, conmanvars>>

\* zateld.rs:73: ipc_recv_safe returned Ok(ipc_msg) of this variant
Matched(variants) ==
    /\ pc = "recv_done"
    /\ rres[1] = "Ok"
    /\ rres[2].data[1] \in variants
    /\ nrecv' = nrecv + 1
    /\ req' = rres[2].data
    /\ last_send' = Idle
    /\ UNCHANGED <<fanvars, recvvars, loadvars, mainvars, conmanvars, plugins, sends,
                   closedBy, yml_strs, merged>>

\* zateld.rs:76-79 and 109-113: shutdown_connection and break
ServeClose ==
    /\ pc = "recv_done"
    /\ IF rres[1] = "Ok" THEN rres[2].data[1] = "ConnectionClosed" ELSE TRUE
    /\ closedBy' = IF rres[1] = "Ok" THEN "ConnectionClosed" ELSE "RecvError"
    /\ pc' = "Closed"
    /\ UNCHANGED <<fanvars, recvvars, loadvars, mainvars, conmanvars, plugins, nrecv, req,
                   desire, ztl_con, calls, contacted, hres, reply, sends,
                   last_send, yml_strs, merged>>

\* zateld.rs:80-82
ServeQuery ==
    /\ Matched({"QueryIfaceInfo"})
    /\ pc' = "Query"
    /\ calls' = select_plugins(plugins, "Query")
    /\ contacted' = Called(calls', "QueryIfaceInfo")
    /\ UNCHANGED <<desire, ztl_con, hres, reply>>

\* zateld.rs:83-85
ServeSaveConf ==
    /\ Matched({"SaveConf"})
    /\ LET parsed == from_str(rres[2].data[2].config)
       IN  IF IsErr(parsed)
           THEN /\ Return(Err(invalid_argument(
                             <<"Invalid format of YAML", parsed[2]>>)))
                /\ UNCHANGED <<desire, ztl_con, calls, contacted>>
           ELSE /\ pc' = "Validate"
                /\ desire' = parsed[2]
                /\ calls' = select_plugins(plugins, "Apply")
                /\ contacted' = Called(calls', "ValidateConf")
                /\ UNCHANGED <<ztl_con, hres, reply>>

\* zateld.rs:86-88
ServeQuerySavedConf ==
    /\ Matched({"QuerySavedConf"})
    /\ pc' = "QuerySaved"
    /\ calls' = select_plugins(plugins, "Config")
    /\ contacted' = Called(calls', "QuerySavedConf")
    /\ UNCHANGED <<desire, ztl_con, hres, reply>>

\* zateld.rs:89-91
ServeQuerySavedConfAll ==
    /\ Matched({"QuerySavedConfAll"})
    /\ pc' = "QuerySavedAll"
    /\ calls' = select_plugins(plugins, "Config")
    /\ contacted' = Called(calls', "QuerySavedConfAll")
    /\ UNCHANGED <<desire, ztl_con, hres, reply>>

\* ipc.rs:29-48, enum ZatelIpcData
ZatelIpcDataVariants ==
    {"Error", "QueryIfaceInfo", "QueryIfaceInfoReply", "QueryPluginInfo",
     "QueryPluginInfoReply", "ValidateConf", "ValidateConfReply", "SaveConf",
     "SaveConfReply", "QuerySavedConf", "QuerySavedConfReply",
     "QuerySavedConfAll", "QuerySavedConfAllReply", "ConnectionClosed",
     "None"}

\* The variants handle_client has an arm for
HandledVariants ==
    {"ConnectionClosed", "QueryIfaceInfo", "SaveConf", "QuerySavedConf",
     "QuerySavedConfAll"}

\* zateld.rs:92: the arm `_`
OtherVariants == ZatelIpcDataVariants \ HandledVariants

\* zateld.rs:92-103
ServeUnknown ==
    /\ Matched(OtherVariants)
    /\ Return(Ok(new(<<"Error", invalid_argument(
                       <<"Invalid IPC message", rres[2]>>)>>)))
    /\ UNCHANGED <<desire, ztl_con, calls, contacted>>

ServeNext ==
    \/ ServeRead
    \/ RecvGetSize
    \/ RecvGetData
    \/ ServeClose
    \/ ServeQuery
    \/ ServeSaveConf
    \/ ServeQuerySavedConf
    \/ ServeQuerySavedConfAll
    \/ ServeUnknown
    \/ PluginExec
    \/ QueryDone
    \/ ValidateDone
    \/ SaveDone
    \/ QuerySavedDone
    \/ QuerySavedAllDone
    \/ SendReply

ServeSpec == ServeInit /\ [][ServeNext]_vars

(***************************************************************************)
(* lib/ipc.rs: a message sent with ipc_send and received at the other end  *)
(* of the stream with ipc_recv or ipc_recv_safe.                           *)
(***************************************************************************)
CodecConnections ==
    { ZatelConnection(u, n, c) :
        u \in {None, Some(""), Some("~")}, n \in {None, Some("eth1")},
        c \in {"name: eth1", BigString} }

CodecData ==
    { <<"QueryPluginInfo">>, <<"QuerySavedConfAll">>, <<"ConnectionClosed">>,
      <<"None">> }
    \cup { <<v, t>> : v \in {"QueryIfaceInfo", "QueryIfaceInfoReply",
                             "ValidateConf", "ValidateConfReply",
                             "QuerySavedConf"},
                      t \in CodecStrings }
    \cup { <<"Error", [kind |-> k, msg |-> t]>> :
             k \in ErrorKind, t \in {"", "eth1"} }
    \cup { <<"QueryPluginInfoReply",
             [name |-> "nispor", socket_path |-> "", capacities |-> l]>> :
             l \in { <<>>, <<"Query", "Apply">>, <<"Config", "Config">> } }
    \cup { <<v, c>> : v \in {"SaveConf", "SaveConfReply",
                             "QuerySavedConfReply"},
                      c \in CodecConnections }
    \cup { <<"QuerySavedConfAllReply", l>> :
             l \in SeqsUpTo(CodecConnections, 1) }

\* ZatelIpcMessage::new and new_with_log (ipc.rs:58-69)
CodecMessages ==
    { [data |-> d, log |-> l] : d \in CodecData, l \in {None, Some(<<>>)} }

CodecInit ==
    /\ req \in CodecMessages
    /\ mode \in {"ipc_recv", "ipc_recv_safe"}
    /\ pc = "ipc_send"
    /\ stream = Idle
    /\ msg_size = 0
    /\ body_reads = 0
    /\ rres = Idle
    /\ hres = Idle
    /\ plugins = <<>>
    /\ nrecv = 0
    /\ desire = Idle
    /\ ztl_con = Idle
    /\ calls = <<>>
    /\ contacted = <<>>
    /\ reply = Idle
    /\ sends = <<>>
    /\ last_send = Idle
    /\ closedBy = "open"
    /\ yml_strs = <<>>
    /\ merged = NotRun
    /\ FanIdle
    /\ LoadIdle
    /\ MainIdle
    /\ ConmanIdle

\* ipc_send, ipc.rs:125-153: the message is serialized, its length and its
\* bytes are written; hres is what ipc_send returns and stream what the peer
\* finds
CodecSend ==
    /\ pc = "ipc_send"
    /\ LET message_bytes == serialize(req)
       IN  \E written \in {"all", "no size", "no bytes"} :
              /\ stream' =
                    IF written = "all"
                    THEN Frame("ok", byte_len(message_bytes), "full",
                               <<"bytes", message_bytes>>)
                    ELSE IF written = "no size"
                    THEN Frame("eof", 0, "eof", <<"nothing">>)
                    ELSE Frame("ok", byte_len(message_bytes), "short",
                               <<"nothing">>)
              /\ hres' =
                    IF written = "all" THEN Ok(<<>>)
                    ELSE IF written = "no size"
                    THEN Err(bug(<<"Failed to write message size">>))
                    ELSE Err(bug(<<"Failed to write message to socket">>))
    /\ pc' = "get_size"
    /\ UNCHANGED <<plugins, nrecv, req, desire, ztl_con, calls, contacted,
                   reply, sends, last_send, closedBy, yml_strs, merged, fanvars,
                   mode, msg_size, body_reads, rres, loadvars, mainvars, conmanvars>>

CodecNext ==
    \/ CodecSend
    \/ RecvGetSize
    \/ RecvGetData

CodecSpec == CodecInit /\ [][CodecNext]_vars

(***************************************************************************)
(* daemon/plugin.rs: load_plugins                                          *)
(***************************************************************************)
PLUGIN_CONNECT_REPLY_COUNT == 10

\* An accept_from no attempt of the retry loop reaches
NeverAccepts == PLUGIN_CONNECT_REPLY_COUNT + 1

\* ipc_exec, ipc.rs:230-236: what ipc_send returned, then ipc_recv of the
\* frame the peer answers with
ipc_exec(sent, frame) == IF IsErr(sent) THEN sent ELSE ipc_recv(frame)

\* plugin.rs:109: format!("{}{}", PLUGIN_SOCKET_PREFIX, plugin_name), for the
\* names of the model, which are the places of the entries in the folder
socket_path_of(plugin_name) ==
    IF plugin_name = 1 THEN "/tmp/zatel_plugin_1"
    ELSE IF plugin_name = 2 THEN "/tmp/zatel_plugin_2"
    ELSE "/tmp/zatel_plugin_3"

\* The PluginInfo a plugin reports (ZatelPluginInfo::new, lib/plugin.rs:38-44)
ReportedInfo(name, capacities) ==
    [name |-> name, capacities |-> capacities, socket_path |-> ""]

\* query_plugin_info taking any message for the reply
plugin_info_from_any(ipc_msg, socket_path) ==
    Ok([ReportedInfo("unknown", {}) EXCEPT !.socket_path = socket_path])

\* query_plugin_info leaving socket_path as the plugin reported it
plugin_info_as_reported(ipc_msg, socket_path) ==
    IF ipc_msg.data[1] = "QueryPluginInfoReply"
    THEN Ok(ipc_msg.data[2])
    ELSE Err(plugin_error(<<"Invalid plugin reply on QueryPluginInfo",
                            ipc_msg>>))

\* query_plugin_info, plugin.rs:160-172: the message ipc_exec returned
plugin_info_from(ipc_msg, socket_path) ==
    IF ipc_msg.data[1] = "QueryPluginInfoReply"
    THEN Ok([ipc_msg.data[2] EXCEPT !.socket_path = socket_path])
    ELSE Err(plugin_error(<<"Invalid plugin reply on QueryPluginInfo",
                            ipc_msg>>))

\* The retry loop giving up after the second attempt
last_attempt_second(i) == i >= 1

\* plugin.rs:184
last_attempt(i) == i = PLUGIN_CONNECT_REPLY_COUNT - 1

\* What a plugin answers the QueryPluginInfo with
HandshakeFrames ==
    { Frame("ok", 64, "full", <<"msg", new(d)>>) :
        d \in { <<"QueryPluginInfoReply",
                  ReportedInfo("nispor", {"Query", "Apply"})>>,
                <<"QueryPluginInfoReply", ReportedInfo("conman", {"Config"})>>,
                <<"QueryPluginInfoReply",
                  [ReportedInfo("conman", {"Config"})
                      EXCEPT !.socket_path = "/tmp/elsewhere"]>>,
                <<"None">>,
                <<"Error", invalid_argument(<<"sent by the peer">>)>> } }
    \cup { Frame("eof", 0, "eof", <<"nothing">>),
           Frame("ok", 64, "full", <<"garbage">>) }

\* An entry of the plugin folder: file is "plugin" for an executable file
\* named zatel_plugin_*, "other" for another name, "noexec" for a file that
\* is not executable; spawn is what Command::spawn meets; accept_from is the
\* first connection attempt the plugin's socket accepts; answer is the
\* frame it replies to the handshake.
DirEntry(file, spawn, accept_from, answer) ==
    [file |-> file, spawn |-> spawn, accept_from |-> accept_from,
     answer |-> answer]

NoAnswer == Frame("eof", 0, "eof", <<"nothing">>)

DirEntries ==
    { DirEntry("other", "ok", 1, NoAnswer),
      DirEntry("noexec", "ok", 1, NoAnswer),
      DirEntry("plugin", "fail", 1, NoAnswer),
      DirEntry("plugin", "ok", NeverAccepts, NoAnswer) }
    \cup { DirEntry("plugin", "ok", k, f) :
             k \in {1, 3, PLUGIN_CONNECT_REPLY_COUNT}, f \in HandshakeFrames }

\* What load_plugins has done with an entry
Outcome(entry, n, sent, result) ==
    [entry |-> entry, connects |-> n, sent |-> sent, result |-> result]

Skipped == <<"Skipped">>

LoadInit ==
    /\ dir \in SeqsUpTo(DirEntries, MaxEntries)
    /\ connects = 0
    /\ outcomes = <<>>
    /\ plugins = <<>>
    /\ pc = "read_dir"
    /\ nrecv = 0
    /\ req = Idle
    /\ desire = Idle
    /\ ztl_con = Idle
    /\ calls = <<>>
    /\ contacted = <<>>
    /\ hres = Idle
    /\ reply = Idle
    /\ sends = <<>>
    /\ last_send = Idle
    /\ closedBy = "open"
    /\ yml_strs = <<>>
    /\ merged = NotRun
    /\ FanIdle
    /\ RecvIdle
    /\ MainIdle
    /\ ConmanIdle

\* The entry at hand is done with: plugin.rs:85 or 92, and the loop goes on
Done(n, sent, result) ==
    /\ outcomes' = Append(outcomes, Outcome(dir[1], n, sent, result))
    /\ plugins' = IF result # Skipped /\ IsOk(result)
                  THEN Append(plugins, result[2]) ELSE plugins
    /\ dir' = Tail(dir)
    /\ connects' = 0
    /\ pc' = "read_dir"

\* load_plugins, plugin.rs:43-76, and plugin_start, plugin.rs:109-127, up
\* to query_plugin_info
LoadVisit ==
    /\ pc = "read_dir"
    /\ dir # <<>>
    /\ IF dir[1].file # "plugin"
       THEN Done(0, Skipped, Skipped)
       ELSE IF dir[1].spawn = "fail"
       THEN Done(0, Skipped, Err(plugin_error(<<"Failed to start plugin">>)))
       ELSE /\ pc' = "connect"
            /\ connects' = 0
            /\ UNCHANGED <<dir, outcomes, plugins>>
    /\ UNCHANGED <<nrecv, req, desire, ztl_con, calls, contacted, hres, reply,
                   sends, last_send, closedBy, yml_strs, merged, fanvars,
                   recvvars, mainvars, conmanvars>>

\* ipc_connect_with_retry, plugin.rs:178-199: one turn of the loop
LoadConnect ==
    /\ pc = "connect"
    /\ connects < PLUGIN_CONNECT_REPLY_COUNT
    /\ IF dir[1].accept_from <= connects + 1
       THEN /\ pc' = "exec"
            /\ connects' = connects + 1
            /\ UNCHANGED <<dir, outcomes, plugins>>
       ELSE IF last_attempt(connects)
       THEN Done(connects + 1, Skipped,
                 Err(plugin_error(<<"Failed to connect plugin IPC socket">>)))
       ELSE /\ connects' = connects + 1
            /\ UNCHANGED <<pc, dir, outcomes, plugins>>
    /\ UNCHANGED <<nrecv, req, desire, ztl_con, calls, contacted, hres, reply,
                   sends, last_send, closedBy, yml_strs, merged, fanvars,
                   recvvars, mainvars, conmanvars>>

\* query_plugin_info, plugin.rs:154-172, and load_plugins, plugin.rs:76-94
LoadHandshake ==
    /\ pc = "exec"
    /\ \E sent \in ipc_send_results :
         LET ipc_msg == ipc_exec(sent, dir[1].answer)
         IN  IF IsErr(ipc_msg)
             THEN Done(connects, sent, ipc_msg)
             ELSE Done(connects, sent,
                       plugin_info_from(ipc_msg[2],
                                        socket_path_of(Len(outcomes) + 1)))
    /\ UNCHANGED <<nrecv, req, desire, ztl_con, calls, contacted, hres, reply,
                   sends, last_send, closedBy, yml_strs, merged, fanvars,
                   recvvars, mainvars, conmanvars>>

\* plugin.rs:102: load_plugins returns the registry
LoadReturn ==
    /\ pc = "read_dir"
    /\ dir = <<>>
    /\ pc' = "loaded"
    /\ UNCHANGED <<plugins, nrecv, req, desire, ztl_con, calls, contacted, hres,
                   reply, sends, last_send, closedBy, yml_strs, merged, fanvars,
                   recvvars, loadvars, mainvars, conmanvars>>

LoadNext ==
    \/ LoadVisit
    \/ LoadConnect
    \/ LoadHandshake
    \/ LoadReturn

LoadSpec == LoadInit /\ [][LoadNext]_vars

(***************************************************************************)
(* daemon/zateld.rs: main from its start, the socket bound, the plugins    *)
(* loaded, then the accept loop. The sessions it spawns are MainSpec's.    *)
(***************************************************************************)
StartupInit ==
    /\ dir \in SeqsUpTo(DirEntries, MaxEntries)
    /\ connects = 0
    /\ outcomes = <<>>
    /\ plugins = <<>>
    /\ clients = <<>>
    /\ pc = "bind"
    /\ nrecv = 0
    /\ req = Idle
    /\ desire = Idle
    /\ ztl_con = Idle
    /\ calls = <<>>
    /\ contacted = <<>>
    /\ hres = Idle
    /\ reply = Idle
    /\ sends = <<>>
    /\ last_send = Idle
    /\ closedBy = "open"
    /\ yml_strs = <<>>
    /\ merged = NotRun
    /\ FanIdle
    /\ RecvIdle
    /\ ConmanIdle

\* zateld.rs:32-38: ipc_bind returns the listener, or the process exits
StartBind ==
    /\ pc = "bind"
    /\ \E bound \in BOOLEAN : pc' = IF bound THEN "read_dir" ELSE "exit"
    /\ UNCHANGED <<plugins, nrecv, req, desire, ztl_con, calls, contacted, hres,
                   reply, sends, last_send, closedBy, yml_strs, merged, fanvars,
                   recvvars, loadvars, mainvars, conmanvars>>

\* An accept loop that runs while a plugin's handshake is awaited
load_plugins_returned_or_awaited == pc \in {"loaded", "exec"}

\* zateld.rs:43: load_plugins().await has returned
load_plugins_returned == pc = "loaded"

\* zateld.rs:45-54: a connection is accepted and its session spawned
StartAccept ==
    /\ load_plugins_returned
    /\ Len(clients) < MaxSessions
    /\ clients' = Append(clients, Client(plugins_clone(plugins)))
    /\ UNCHANGED <<plugins, pc, nrecv, req, desire, ztl_con, calls, contacted,
                   hres, reply, sends, last_send, closedBy, yml_strs, merged,
                   fanvars, recvvars, loadvars, conmanvars>>

StartupNext ==
    \/ StartBind
    \/ LoadVisit
    \/ LoadConnect
    \/ LoadHandshake
    \/ LoadReturn
    \/ StartAccept

StartupSpec == StartupInit /\ [][StartupNext]_vars

(***************************************************************************)
(* The merge driver: merge_yaml_mappings applied to every sequence of at   *)
(* most MaxFrags fragments.                                                *)
(***************************************************************************)
FragTexts ==
    { Block(<< <<"a", Int1>> >>),
      Block(<< <<"a", Int2>> >>),
      Block(<< <<"b", Int2>> >>),
      Block(<< <<"a", Int1>>, <<"b", Int2>> >>),
      Flow(<< <<"b", Int3>>, <<"a", Int2>> >>),
      Block(<< <<"c", Map(<< <<"x", Int1>> >>)>> >>),
      Block(<< <<"c", Map(<< <<"x", Int2>> >>)>> >>),
      Block(<< <<"c", Map(<< <<"x", Int1>>, <<"y", Int2>> >>)>> >>),
      <<"yaml", "block", Int1>>,
      <<"empty">> }

MergeInit ==
    /\ yml_strs \in SeqsUpTo(FragTexts, MaxFrags)
    /\ merged = NotRun
    /\ pc = "merge"
    /\ plugins = <<>>
    /\ nrecv = 0
    /\ req = Idle
    /\ desire = Idle
    /\ ztl_con = Idle
    /\ calls = <<>>
    /\ contacted = <<>>
    /\ hres = Idle
    /\ reply = Idle
    /\ sends = <<>>
    /\ last_send = Idle
    /\ closedBy = "open"
    /\ FanIdle
    /\ RecvIdle
    /\ LoadIdle
    /\ MainIdle
    /\ ConmanIdle

MergeRun ==
    /\ pc = "merge"
    /\ merged = NotRun
    /\ merged' = merge_yaml_mappings(yml_strs)
    /\ UNCHANGED <<fanvars, recvvars, loadvars, mainvars, conmanvars, plugins, pc, nrecv, req, desire, ztl_con, calls, contacted,
                   hres, reply, sends, last_send, closedBy, yml_strs>>

MergeNext == MergeRun

MergeSpec == MergeInit /\ [][MergeNext]_vars

(***************************************************************************)
(* plugin_conman/plugin_conman.rs: the plugin that keeps the records, one  *)
(* file per uuid. A file is bytes; the model holds them as the lines       *)
(* serde_yaml::to_string wrote, a line that an overwrite has cut keeping   *)
(* the count of its bytes that are gone.                                   *)
(***************************************************************************)
CONNECTION_KEY == "_connection"

\* str::len of the keys and scalars the documents of the model are made of
text_len(s) ==
    CASE s \in {"a", "b", "1", "2"} -> 1
      [] s \in {"u1", "u2"} -> 2
      [] s \in {"uuid", "name", "eth1", "eth2"} -> 4
      [] s = CONNECTION_KEY -> 11
      [] OTHER -> 3

\* The last n bytes of a key
str_suffix(s, n) ==
    IF n >= text_len(s) THEN s
    ELSE CASE s = "name" -> <<"e", "me", "ame">>[n]
           [] s = "uuid" -> <<"d", "id", "uid">>[n]
           [] s = CONNECTION_KEY ->
                <<"n", "on", "ion", "tion", "ction", "ection", "nection",
                  "nnection", "onnection", "connection">>[n]
           [] OTHER -> s

\* A line of a document in the block style: `key: value`, or `key:` when
\* value is <<"Map">> and the entries of a nested mapping follow, after
\* indent spaces; skip is the count of its first bytes that are gone
Line(indent, key, value) ==
    [indent |-> indent, key |-> key, value |-> value, skip |-> 0]

\* The line `---` serde_yaml::to_string begins a document with
DocStart == Line(0, "---", <<"Doc">>)

\* The bytes of a whole line, its line feed included
line_len(l) ==
    IF l.value[1] = "Doc" THEN 4
    ELSE IF l.value[1] = "Map" THEN l.indent + text_len(l.key) + 2
    ELSE l.indent + text_len(l.key) + 2 + text_len(l.value[2]) + 1

RECURSIVE total_len(_)
\* String::len of a text
total_len(lines) ==
    IF lines = <<>> THEN 0
    ELSE line_len(lines[1]) - lines[1].skip + total_len(Tail(lines))

RECURSIVE emit_entries(_, _)
\* serde_yaml::to_string of a Mapping: an entry per line, the entries of a
\* nested mapping two spaces further in
emit_entries(items, indent) ==
    IF items = <<>> THEN <<>>
    ELSE LET key == items[1][1]
             value == items[1][2]
         IN  (IF value[1] = "Map"
              THEN <<Line(indent, key, <<"Map">>)>>
                       \o emit_entries(value[2], indent + 2)
              ELSE <<Line(indent, key, value)>>)
             \o emit_entries(Tail(items), indent)

\* serde_yaml::to_string(&yaml_map), plugin_conman.rs:296, as bytes
to_bytes(items) == <<DocStart>> \o emit_entries(items, 0)

RECURSIVE drop_bytes(_, _)
\* What is left of a text past its first n bytes
drop_bytes(lines, n) ==
    IF lines = <<>> \/ n = 0 THEN lines
    ELSE LET rest == line_len(lines[1]) - lines[1].skip
         IN  IF n >= rest THEN drop_bytes(Tail(lines), n - rest)
             ELSE <<[lines[1] EXCEPT !.skip = @ + n]>> \o Tail(lines)

\* OpenOptions::new().create(true).write(true) and fd.write_all,
\* plugin_conman.rs:146-161: the file is not truncated and the write starts
\* at offset 0, so the bytes of the old content past the new one stay
write_all(old, ztl_con_yaml) ==
    ztl_con_yaml \o drop_bytes(old, total_len(ztl_con_yaml))

\* What a line that is cut, or whole, reads as: a blank line, a scalar
\* alone, a `: value` without key, or an entry at some indentation
visible(l) ==
    LET rest == line_len(l) - l.skip
        klen == text_len(l.key)
        vlen == IF l.value[1] \in {"Doc", "Map"} THEN 0 - 1
                ELSE text_len(l.value[2])
        \* the bytes from the colon on: `:\n` or `: value\n`
        tail == vlen + 3
    IN  IF l.skip = 0 THEN [kind |-> IF l.value[1] = "Doc" THEN "doc" ELSE "entry",
                            indent |-> l.indent, key |-> l.key, value |-> l.value]
        ELSE IF rest = 1
        THEN [kind |-> "blank", indent |-> 0, key |-> "", value |-> l.value]
        ELSE IF l.value[1] = "Doc" \/ rest < tail
        THEN [kind |-> "scalar", indent |-> 0, key |-> "", value |-> l.value]
        ELSE IF rest = tail
        THEN [kind |-> "nokey", indent |-> 0, key |-> "~", value |-> l.value]
        ELSE IF rest <= tail + klen
        THEN [kind |-> "entry", indent |-> 0,
              key |-> str_suffix(l.key, rest - tail), value |-> l.value]
        ELSE [kind |-> "entry", indent |-> rest - tail - klen,
              key |-> l.key, value |-> l.value]

\* Mapping::insert: the value takes the place of the one the key had
put(items, key, value) ==
    IF \E i \in 1..Len(items) : items[i][1] = key
    THEN [i \in 1..Len(items) |->
            IF items[i][1] = key THEN <<key, value>> ELSE items[i]]
    ELSE Append(items, <<key, value>>)

\* The readings of what YAML leaves to the parser: "strict" refuses a key
\* met twice and an entry without key, "lenient" keeps the last value of the
\* key and takes the missing key as null
Readings == {"strict", "lenient"}

RECURSIVE read_lines(_, _, _, _)
\* The parser over the lines: top is the top-level mapping read so far,
\* nested is TRUE while its last entry may take the entries of a nested
\* mapping
read_lines(lines, top, nested, reading) ==
    IF lines = <<>> THEN Ok(top)
    ELSE LET v == visible(lines[1])
             value == IF v.value[1] = "Map" THEN <<"Null">> ELSE v.value
             last == top[Len(top)]
             inner == IF last[2][1] = "Map" THEN last[2][2] ELSE <<>>
         IN  IF v.kind = "blank"
             THEN read_lines(Tail(lines), top, nested, reading)
             ELSE IF v.kind \in {"doc", "scalar"}
             THEN Err(<<"yaml error">>)
             ELSE IF v.kind = "nokey" /\ reading = "strict"
             THEN Err(<<"yaml error">>)
             ELSE IF v.indent = 0
             THEN IF contains_key(top, v.key) /\ reading = "strict"
                  THEN Err(<<"yaml error">>)
                  ELSE read_lines(Tail(lines), put(top, v.key, value),
                                  v.value[1] = "Map", reading)
             ELSE IF v.indent = 2 /\ nested /\ v.value[1] # "Map"
             THEN IF contains_key(inner, v.key) /\ reading = "strict"
                  THEN Err(<<"yaml error">>)
                  ELSE read_lines(
                           Tail(lines),
                           [top EXCEPT ![Len(top)] =
                               <<last[1], Map(put(inner, v.key, value))>>],
                           TRUE, reading)
             ELSE Err(<<"yaml error">>)

\* serde_yaml::from_str::<serde_yaml::Mapping> of the bytes of a file: the
\* empty file is an error, a document begins with its `---`
from_bytes(bytes, reading) ==
    IF bytes = <<>> THEN Err(<<"yaml error">>)
    ELSE IF bytes[1] # DocStart THEN Err(<<"yaml error">>)
    ELSE read_lines(Tail(bytes), <<>>, FALSE, reading)

\* serde_yaml::from_str::<serde_yaml::Mapping> of the config of a record
from_str_mapping(text) ==
    IF IsErr(from_str(text)) THEN from_str(text)
    ELSE IF as_mapping(from_str(text)[2]) = None
    THEN Err(<<"yaml error", text>>)
    ELSE Ok(as_mapping(from_str(text)[2])[2])

\* gen_connection_setting
gen_connection_setting(uuid, name) ==
    Map(<< <<"uuid", <<"Str", uuid>> >>, <<"name", <<"Str", name>> >> >>)

\* Mapping::insert of plugin_conman.rs:292: an entry the key already had is
\* replaced, and the key is then the last of the mapping
insert_last(items, key, value) ==
    Append(SelectSeq(items, LAMBDA e : e[1] # key), <<key, value>>)

\* zatel_connection_to_flat_string
zatel_connection_to_flat_string(con) ==
    IF con.uuid = None
    THEN Err(bug(<<"Got None uuid from daemon", con>>))
    ELSE IF con.name = None
    THEN Err(bug(<<"Got None name from daemon", con>>))
    ELSE LET yaml_map == from_str_mapping(con.config)
         IN  IF IsErr(yaml_map)
             THEN Err(bug(<<"got invalid YAML file from daemon",
                            con.config>>))
             ELSE Ok(to_bytes(insert_last(
                         yaml_map[2], CONNECTION_KEY,
                         gen_connection_setting(con.uuid[2],
                                                con.name[2]))))

\* zatel_connection_from_flat_string
zatel_connection_from_flat_string(conn_str, reading) ==
    LET yaml_map == from_bytes(conn_str, reading)
    IN  IF IsErr(yaml_map)
        THEN Err(invalid_argument(<<"Corrupted connection YAML file">>))
        ELSE IF ~contains_key(yaml_map[2], CONNECTION_KEY)
        THEN Err(invalid_argument(<<"does not have section">>))
        ELSE LET conn_setting == map_get(yaml_map[2], CONNECTION_KEY)
                 rest == SelectSeq(yaml_map[2],
                                   LAMBDA e : e[1] # CONNECTION_KEY)
             IN  IF conn_setting[1] # "Map"
                 THEN Err(invalid_argument(<<"section is not a map">>))
                 ELSE IF ~contains_key(conn_setting[2], "uuid")
                         \/ ~contains_key(conn_setting[2], "name")
                 THEN Err(invalid_argument(<<"does not have name or uuid">>))
                 ELSE IF map_get(conn_setting[2], "uuid")[1] # "Str"
                 THEN Err(invalid_argument(<<"invalid uuid">>))
                 ELSE IF map_get(conn_setting[2], "name")[1] # "Str"
                 THEN Err(invalid_argument(<<"invalid name">>))
                 ELSE Ok(ZatelConnection(
                             Some(map_get(conn_setting[2], "uuid")[2]),
                             Some(map_get(conn_setting[2], "name")[2]),
                             to_string(Map(rest))))

\* A file of the folder: whether it exists, and its bytes
File(exists, bytes) == [exists |-> exists, bytes |-> bytes]

\* The uuids the daemon asks about; gen_file_path gives each its own file
ConmanUuids == {"u1", "u2"}

ConmanConfigs ==
    { Block(<< <<"a", Int1>> >>),
      Block(<< <<"a", Int1>>, <<"b", Int2>> >>),
      Block(<< <<CONNECTION_KEY, Int1>> >>) }

\* The records the plugin is asked to save: under u1 each name with each
\* config, one record under u2, and records the plugin refuses (no uuid, no
\* name, a config that is no mapping)
ConmanRecords ==
    { ZatelConnection(Some("u1"), Some(n), c) :
        n \in {"eth1", "eth2"}, c \in ConmanConfigs }
    \cup { ZatelConnection(Some("u2"), Some("eth1"), Block(<< <<"a", Int1>> >>)),
           ZatelConnection(None, Some("eth1"), Block(<< <<"a", Int1>> >>)),
           ZatelConnection(Some("u1"), None, Block(<< <<"a", Int1>> >>)),
           ZatelConnection(Some("u1"), Some("eth1"), <<"yaml", "block", Int1>>) }

\* What the file system does to a save: it goes through, the file cannot be
\* opened, or the write fails with nothing written
SaveIo == {"ok", "open_fails", "write_fails"}

Handled(request, message) == <<"Handled", request, message>>

ConmanInit ==
    /\ files = [u \in ConmanUuids |-> File(FALSE, <<>>)]
    /\ last_saved = [u \in ConmanUuids |-> None]
    /\ handled = Idle
    /\ plugins = <<>>
    /\ pc = "handle_client"
    /\ nrecv = 0
    /\ req = Idle
    /\ desire = Idle
    /\ ztl_con = Idle
    /\ calls = <<>>
    /\ contacted = <<>>
    /\ hres = Idle
    /\ reply = Idle
    /\ sends = <<>>
    /\ last_send = Idle
    /\ closedBy = "open"
    /\ yml_strs = <<>>
    /\ merged = NotRun
    /\ FanIdle
    /\ RecvIdle
    /\ LoadIdle
    /\ MainIdle

\* What no request to the plugin touches
ConmanFrame ==
    UNCHANGED <<plugins, pc, nrecv, req, desire, ztl_con, calls, contacted,
                hres, reply, sends, last_send, closedBy, yml_strs, merged,
                fanvars, recvvars, loadvars, mainvars>>

\* handle_msg, plugin_conman.rs:121-123, and save_conf
ConmanSaveConf ==
    /\ \E con \in ConmanRecords, io \in SaveIo :
         LET ztl_con_yaml == zatel_connection_to_flat_string(con)
             opened == con.uuid # None /\ io # "open_fails"
             file == IF opened THEN files[con.uuid[2]] ELSE File(FALSE, <<>>)
             result ==
                 IF con.uuid = None
                 THEN Err(bug(<<"Got None uuid from daemon", con>>))
                 ELSE IF io = "open_fails"
                 THEN Err(plugin_error(<<"Failed to open file">>))
                 ELSE IF IsErr(ztl_con_yaml) THEN ztl_con_yaml
                 ELSE IF io = "write_fails"
                 THEN Err(plugin_error(<<"Failed to write file">>))
                 ELSE Ok(new(<<"SaveConfReply", con>>))
         IN  /\ files' =
                    IF ~opened THEN files
                    ELSE [files EXCEPT ![con.uuid[2]] =
                            File(TRUE,
                                 IF IsOk(result)
                                 THEN write_all(file.bytes, ztl_con_yaml[2])
                                 ELSE file.bytes)]
             /\ last_saved' =
                    IF IsOk(result)
                    THEN [last_saved EXCEPT ![con.uuid[2]] = Some(con)]
                    ELSE last_saved
             /\ handled' = Handled(<<"SaveConf", con>>, from_result(result))
    /\ ConmanFrame

\* read_file
read_file(file) ==
    IF file.exists THEN Ok(file.bytes)
    ELSE Err(plugin_error(<<"Failed to open">>))

\* query
query(uuid, reading) ==
    LET conn_str == read_file(files[uuid])
    IN  IF IsErr(conn_str) THEN conn_str
        ELSE LET con == zatel_connection_from_flat_string(conn_str[2], reading)
             IN  IF IsErr(con) THEN con
                 ELSE Ok(new(<<"QuerySavedConfReply", con[2]>>))

\* handle_msg, plugin_conman.rs:124-126
ConmanQuery ==
    /\ \E uuid \in ConmanUuids, reading \in Readings :
         handled' = Handled(<<"QuerySavedConf", uuid>>,
                            from_result(query(uuid, reading)))
    /\ UNCHANGED <<files, last_saved>>
    /\ ConmanFrame

\* query_all: the files of the folder that read as a record, in the order
\* read_dir gives them
query_all(reading) ==
    LET readable ==
            { u \in ConmanUuids :
                /\ files[u].exists
                /\ IsOk(zatel_connection_from_flat_string(files[u].bytes,
                                                          reading)) }
    IN  { Ok(new(<<"QuerySavedConfAllReply",
                   [i \in 1..Len(order) |->
                       zatel_connection_from_flat_string(
                           files[order[i]].bytes, reading)[2]]>>)) :
            order \in { o \in SeqsUpTo(readable, Cardinality(readable)) :
                          /\ Len(o) = Cardinality(readable)
                          /\ \A i, j \in 1..Len(o) : i # j => o[i] # o[j] } }

\* handle_msg, plugin_conman.rs:127-129
ConmanQueryAll ==
    /\ \E reading \in Readings : \E result \in query_all(reading) :
         handled' = Handled(<<"QuerySavedConfAll">>, from_result(result))
    /\ UNCHANGED <<files, last_saved>>
    /\ ConmanFrame

\* handle_msg, plugin_conman.rs:115-120
ConmanQueryPluginInfo ==
    /\ handled' = Handled(<<"QueryPluginInfo">>,
                          new(<<"QueryPluginInfoReply",
                                ReportedInfo("conman", {"Config"})>>))
    /\ UNCHANGED <<files, last_saved>>
    /\ ConmanFrame

\* handle_msg, plugin_conman.rs:130: any other request
ConmanOther ==
    /\ \E request \in { <<"QueryIfaceInfo", "eth1">>,
                        <<"ValidateConf", Block(<< <<"a", Int1>> >>)>> } :
         handled' = Handled(request, new(<<"None">>))
    /\ UNCHANGED <<files, last_saved>>
    /\ ConmanFrame

ConmanNext ==
    \/ ConmanSaveConf
    \/ ConmanQuery
    \/ ConmanQueryAll
    \/ ConmanQueryPluginInfo
    \/ ConmanOther

ConmanSpec == ConmanInit /\ [][ConmanNext]_vars

(***************************************************************************)
(* Properties of the session.                                              *)
(***************************************************************************)
IsSaveConf == req[1] = "SaveConf"

SentSaveConf == \E i \in 1..Len(plugins) : "SaveConf" \in contacted[i]

\* The validation phase as the protocol states it: the ValidateConf fan-out
\* is joined, the strict merge of the replies succeeds and the merged
\* document equals the desired one
ValidateStrs == extract_strs_from_ipc_msg(ipc_plugins_exec(calls))

ValidationHolds ==
    /\ pc = "Validate"
    /\ Joined
    /\ IsOk(merge_yaml_mappings(ValidateStrs))
    /\ from_str(merge_yaml_mappings(ValidateStrs)[2]) = Ok(desire)

\* C1: a handler that returns an error does not end the session: the reply
\* is the Error variant holding that error's kind and message, ipc_send is
\* called once with it, and the session is Reading again.
C1_HandlerErrorIsReplied ==
    [][ (pc = "Sending" /\ IsErr(hres)) =>
            /\ reply.data = <<"Error", hres[2]>>
            /\ reply.data[2].kind \in ErrorKind
            /\ pc' = "Reading"
            /\ closedBy' = "open"
            /\ sends' = Append(sends, nrecv)
            /\ last_send' \in { <<"Sent", reply, r>> : r \in ipc_send_results } ]_vars

C1_Witness ==
    /\ pc = "Reading"
    /\ closedBy = "open"
    /\ last_send[1] = "Sent"
    /\ last_send[2].data[1] = "Error"
    /\ last_send[2].data[2].kind = "PluginError"

\* C2: every request dispatched gets one call of ipc_send before the next
\* read, whatever that call returns, so the replies follow the order of
\* arrival: the k-th call of ipc_send answers the k-th request, and while a
\* request is dispatched it is the only one not yet answered.
C2_OneReplyPerRequestInOrder ==
    /\ \A k \in 1..Len(sends) : sends[k] = k
    /\ pc \in {"Reading", "Closed"} => Len(sends) = nrecv
    /\ pc \notin {"Reading", "Closed"} => Len(sends) + 1 = nrecv

C2_Witness ==
    /\ pc = "Reading"
    /\ nrecv = 2
    /\ sends = <<1, 2>>
    /\ last_send[1] = "Sent"
    /\ IsErr(last_send[3])

\* C3: a plugin is sent SaveConf only by the step that ends a validation
\* phase that holds; when the document does not parse or the validation
\* does not hold, the handler returns an error and no plugin is sent SaveConf.
C3_SaveOnlyAfterValidation ==
    [][ /\ \A i \in 1..Len(plugins) :
              ("SaveConf" \in contacted'[i] /\ "SaveConf" \notin contacted[i])
                  => ValidationHolds
        /\ (pc = "Validate" /\ Joined /\ ~ValidationHolds) =>
              /\ pc' = "Sending"
              /\ reply'.data[1] = "Error"
              /\ \A i \in 1..Len(plugins) : "SaveConf" \notin contacted'[i] ]_vars

C3_Witness ==
    /\ pc = "Sending"
    /\ IsSaveConf
    /\ reply.data[1] = "Error"
    /\ ~SentSaveConf
    /\ \E i \in 1..Len(plugins) : "Config" \in plugins[i].capacities
    /\ \E i \in 1..Len(plugins) : "ValidateConf" \in contacted[i]

\* C4: when the strict merge of the ValidateConf replies succeeds and is not
\* the desired document, validation ends with InvalidArgument: also when the
\* replies cover a part of the document, or there is no reply at all.
C4_MismatchIsInvalidArgument ==
    [][ ( /\ pc = "Validate"
          /\ Joined
          /\ IsOk(merge_yaml_mappings(ValidateStrs))
          /\ from_str(merge_yaml_mappings(ValidateStrs)[2]) # Ok(desire) ) =>
            /\ pc' = "Sending"
            /\ IsErr(hres')
            /\ hres'[2].kind = "InvalidArgument"
            /\ reply'.data = <<"Error", hres'[2]>> ]_vars

C4_Witness ==
    /\ pc = "Sending"
    /\ IsSaveConf
    /\ IsErr(hres)
    /\ hres[2].kind = "InvalidArgument"
    /\ desire # Idle
    /\ Len(ValidateStrs) = 1
    /\ Len(Items(ValidateStrs[1])) = 1
    /\ desire[1] = "Map"
    /\ Len(desire[2]) = 2

\* The SaveConf fan-out has been started and joined, and the handler has
\* returned
SaveReturned == pc = "Sending" /\ IsSaveConf /\ ztl_con[1] = "Set"

\* The records the plugins answered the SaveConf with, in registry order
RECURSIVE EchoedBy(_)
EchoedBy(replys) ==
    IF replys = <<>> THEN <<>>
    ELSE LET rest == EchoedBy(Tail(replys))
         IN  IF replys[1][1] = "Ok" /\ replys[1][2].data[1] = "SaveConfReply"
             THEN <<replys[1][2].data[2]>> \o rest
             ELSE rest

Echoed == EchoedBy(calls)

\* C5: a SaveConf whose validation holds and which a Config plugin answers
\* with a SaveConfReply holding the assigned uuid and name, every answer
\* being the record sent, succeeds with that uuid and name and with the
\* desired document as config.
C5_SaveSucceeds ==
    ( /\ SaveReturned
      /\ Len(Echoed) > 0
      /\ \A k \in 1..Len(Echoed) : Echoed[k] = ztl_con[2] ) =>
        /\ IsOk(hres)
        /\ reply.data[1] = "SaveConfReply"
        /\ reply.data[2].uuid = ztl_con[2].uuid
        /\ reply.data[2].name = ztl_con[2].name
        /\ reply.data[2].uuid # None
        /\ reply.data[2].name # None
        /\ from_str(reply.data[2].config) = Ok(desire)

C7_NoSaverIsPluginError ==
    /\ (SaveReturned /\ Len(Echoed) = 0) =>
          /\ IsErr(hres)
          /\ hres[2].kind = "PluginError"
          /\ reply.data = <<"Error", hres[2]>>
    /\ (pc = "Sending" /\ IsSaveConf /\ ztl_con[1] # "Set") =>
          reply.data[1] = "Error"

C7_Witness ==
    /\ SaveReturned
    /\ Len(Echoed) = 0
    /\ \E i \in 1..Len(plugins) : calls[i] \in PluginFailures
    /\ hres[2].kind = "PluginError"

\* A fragment names another uuid or another name than the one assigned, or
\* two of the config bodies (the record's own first) hold a top-level key
\* with different values
ConfigsConflict(strs) ==
    \E i, j \in 1..Len(strs) :
        \E x \in 1..Len(Items(strs[i])), y \in 1..Len(Items(strs[j])) :
            /\ Items(strs[i])[x][1] = Items(strs[j])[y][1]
            /\ Items(strs[i])[x][2] # Items(strs[j])[y][2]

EchoDisagrees ==
    \/ \E k \in 1..Len(Echoed) :
          \/ Echoed[k].uuid \notin {None, ztl_con[2].uuid}
          \/ Echoed[k].name \notin {None, ztl_con[2].name}
    \/ ConfigsConflict(<<ztl_con[2].config>>
                       \o [k \in 1..Len(Echoed) |-> Echoed[k].config])

\* C8: when an echoed fragment disagrees on uuid or name, or the config
\* bodies conflict, the SaveConf ends with PluginError and no SaveConfReply
\* is returned; merge_from applied to the echoed fragments is a PluginError.
C8_DisagreementIsPluginError ==
    (SaveReturned /\ EchoDisagrees) =>
        /\ IsErr(hres)
        /\ hres[2].kind = "PluginError"
        /\ reply.data = <<"Error", hres[2]>>
        /\ IsErr(merge_from(ztl_con[2], Echoed))
        /\ merge_from(ztl_con[2], Echoed)[2].kind = "PluginError"

C8_Witness ==
    /\ SaveReturned
    /\ \E k \in 1..Len(Echoed) : Echoed[k].uuid = Some("other-uuid")
    /\ \E k \in 1..Len(Echoed) : Echoed[k] = ztl_con[2]
    /\ hres[2].kind = "PluginError"

\* C10: a Query whose replies hold a top-level key with different values
\* succeeds, and its reply holds for each key the value seen first.
QueryStrs == extract_strs_from_ipc_msg(ipc_plugins_exec(calls))

C10_QueryKeepsFirstSeen ==
    ( /\ pc = "Sending"
      /\ req[1] = "QueryIfaceInfo"
      /\ \A k \in 1..Len(QueryStrs) : QueryStrs[k] # <<"empty">>
      /\ ConfigsConflict(QueryStrs) ) =>
        /\ IsOk(hres)
        /\ reply.data[1] = "QueryIfaceInfoReply"
        /\ Items(reply.data[2])[1] = Items(QueryStrs[1])[1]

(***************************************************************************)
(* Properties of merge_yaml_mappings.                                      *)
(***************************************************************************)
AllMappings(strs) ==
    \A i \in 1..Len(strs) :
        IsOk(from_str(strs[i])) /\ as_mapping(from_str(strs[i])[2]) # None

\* C9: a merge of mappings in which a top-level key holds different values
\* in two fragments fails with a PluginError naming a key in conflict, the
\* value of the later fragment and the value of the earlier one; no merge of
\* fragments holding a conflict returns a document.
C9_ConflictFailsNamingKey ==
    (merged # NotRun /\ ConfigsConflict(yml_strs)) =>
        /\ IsErr(merged)
        /\ merged[2].kind = "PluginError"
        /\ AllMappings(yml_strs) =>
              /\ merged[2].msg[1] = "Duplicate key"
              /\ \E i, j \in 1..Len(yml_strs) :
                    /\ i < j
                    /\ <<merged[2].msg[2], merged[2].msg[4]>>
                           \in {Items(yml_strs[i])[x] :
                                   x \in 1..Len(Items(yml_strs[i]))}
                    /\ <<merged[2].msg[2], merged[2].msg[3]>>
                           \in {Items(yml_strs[j])[y] :
                                   y \in 1..Len(Items(yml_strs[j]))}
                    /\ merged[2].msg[3] # merged[2].msg[4]

C9_Witness ==
    /\ merged # NotRun
    /\ IsErr(merged)
    /\ merged[2].msg[1] = "Duplicate key"
    /\ merged[2].msg[2] = "c"
    /\ Len(yml_strs) = 3

\* The top-level keys of a fragment
Keys(text) == { Items(text)[x][1] : x \in 1..Len(Items(text)) }

DisjointMappings(strs) ==
    /\ AllMappings(strs)
    /\ \A i, j \in 1..Len(strs) : i # j => Keys(strs[i]) \cap Keys(strs[j]) = {}

\* The entries of the fragments, one fragment after the other
RECURSIVE AllItems(_)
AllItems(strs) ==
    IF strs = <<>> THEN <<>> ELSE Items(strs[1]) \o AllItems(Tail(strs))

\* The fragments as the replies of Query plugins
AsQueryReplys(strs) ==
    [i \in 1..Len(strs) |-> Ok(new(<<"QueryIfaceInfoReply", strs[i]>>))]

FanoutPhases == {"Query", "Validate", "Save", "QuerySaved", "QuerySavedAll"}

InFanout == pc \in FanoutPhases

\* The capacity each handler gives to ipc_plugins_exec (zateld.rs:127, 208,
\* 168, 309, 241)
CapacityFor(variant) ==
    IF variant = "QueryIfaceInfo" THEN "Query"
    ELSE IF variant = "ValidateConf" THEN "Apply"
    ELSE "Config"

\* C12: during a fan-out a plugin holds a call, and has been sent the
\* request, exactly when its capacities contain the capacity of the fan-out;
\* every request a plugin was ever sent is one its capacities cover.
C12_OnlyCapablePluginsAreCalled ==
    /\ InFanout =>
          \A i \in 1..Len(plugins) :
              /\ calls[i] # Idle
                    <=> CapacityFor(FanoutRequest[1]) \in plugins[i].capacities
              /\ FanoutRequest[1] \in contacted[i]
                    <=> CapacityFor(FanoutRequest[1]) \in plugins[i].capacities
    /\ pc \in FanoutPhases \cup {"Sending"} =>
          \A i \in 1..Len(plugins) :
              /\ \A v \in contacted[i] : CapacityFor(v) \in plugins[i].capacities
              /\ calls[i] # Idle => contacted[i] # {}

C12_Witness ==
    /\ pc = "Save"
    /\ Len(plugins) = 2
    /\ plugins[1].capacities = {"Query", "Apply"}
    /\ plugins[2].capacities = {"Apply", "Config"}
    /\ contacted[1] = {"ValidateConf"}
    /\ contacted[2] = {"ValidateConf", "SaveConf"}
    /\ calls[1] = Idle
    /\ IsOk(calls[2])

\* C13: ipc_plugins_exec returns only in a step before which no call it
\* made is pending, whatever calls have succeeded or failed by then; a call,
\* once completed, keeps its result; and once every call has completed,
\* ipc_plugins_exec does return.
C13_FanoutJoinsAll ==
    /\ [][ /\ (pc = "join_all" /\ pc' # pc) =>
                \A i \in 1..Len(plugins) : calls[i] # Pending
           /\ pc = "join_all" =>
                \A i \in 1..Len(plugins) :
                    calls[i] \notin {Idle, Pending} => calls'[i] = calls[i] ]_vars
    /\ (pc = "join_all" /\ \A i \in 1..Len(plugins) : calls[i] # Pending)
          ~> (pc = "returned")

C13_Witness ==
    /\ pc = "returned"
    /\ Len(plugins) = 2
    /\ IsErr(calls[1])
    /\ IsOk(calls[2])
    /\ fan_res = <<calls[2][2]>>

\* The call of plugin i has failed: no connection, an Error reply, or a
\* reply that does not answer the request
Failed(i) ==
    \/ IsErr(calls[i])
    \/ IsOk(calls[i]) /\ calls[i][2].data[1] = "None"

\* C14: once a fan-out is joined, its result with a failed plugin is the
\* result without that plugin, and each reply carrying a string that another
\* plugin gave is in the result; every plugin holding the capacity was
\* called, whatever failed.
C14_FailureIsIsolated ==
    (InFanout /\ \A i \in 1..Len(plugins) : calls[i] # Pending) =>
        \A i \in 1..Len(plugins) :
            (calls[i] # Idle /\ Failed(i)) =>
                /\ ipc_plugins_exec(calls)
                      = ipc_plugins_exec([calls EXCEPT ![i] = Idle])
                /\ \A j \in 1..Len(plugins) :
                      CapacityFor(FanoutRequest[1]) \in plugins[j].capacities
                          => FanoutRequest[1] \in contacted[j]
                /\ \A j \in 1..Len(plugins) :
                      ( /\ calls[j] # Idle
                        /\ IsOk(calls[j])
                        /\ IsOk(get_data_str(calls[j][2])) ) =>
                          \E k \in 1..Len(ipc_plugins_exec(calls)) :
                              ipc_plugins_exec(calls)[k] = calls[j][2]

C14_Witness ==
    /\ pc = "Query"
    /\ Len(plugins) = 2
    /\ IsErr(calls[1])
    /\ IsOk(calls[2])
    /\ calls[2][2].data[1] = "QueryIfaceInfoReply"
    /\ ipc_plugins_exec(calls) = <<calls[2][2]>>

(***************************************************************************)
(* Properties of ipc_recv, ipc_recv_safe and ipc_exec.                     *)
(***************************************************************************)
ConnectionClosed == Ok(new(<<"ConnectionClosed">>))

\* C17: ipc_recv and ipc_recv_safe on a stream the peer closed before it
\* sent a byte return Ok(ConnectionClosed), and read nothing further.
C17_ClosedStreamIsConnectionClosed ==
    /\ (pc = "recv_done" /\ mode \in {"ipc_recv", "ipc_recv_safe"}
          /\ stream.hdr = "eof") =>
            rres = ConnectionClosed /\ body_reads = 0
    /\ (pc = "recv_done" /\ stream.hdr = "eof") =>
            ipc_recv(stream) = ConnectionClosed
            /\ ipc_recv_safe(stream) = ConnectionClosed

C17_Witness ==
    /\ pc = "recv_done"
    /\ mode = "ipc_recv_safe"
    /\ stream.hdr = "eof"
    /\ rres = ConnectionClosed

\* The stream fails ipc_recv otherwise than by its end at the first read: the
\* peer closes inside the length prefix, the read of the prefix fails, or,
\* a body being announced, the peer closes before the whole of it has
\* arrived or the read of the body fails
OtherIoFailure ==
    \/ stream.hdr \in {"short", "ioerr"}
    \/ stream.hdr = "ok" /\ stream.size > 0
                         /\ stream.body \in {"eof", "short", "ioerr"}

\* C18: ipc_recv on a stream that fails otherwise than by its end at the
\* first read returns an error.
C18_OtherIoFailureIsError ==
    (pc = "recv_done" /\ mode = "ipc_recv" /\ OtherIoFailure) => IsErr(rres)

\* C19: ipc_recv_safe returns InvalidArgument for a length above
\* IPC_SAFE_SIZE without a read of the body, and for a length from 1 to
\* IPC_SAFE_SIZE it returns what ipc_recv returns, after one read of the body.
C19_SafeSizeLimit ==
    (pc = "recv_done" /\ mode = "ipc_recv_safe" /\ stream.hdr = "ok") =>
        /\ stream.size > 10 * 1024 * 1024 =>
              /\ IsErr(rres)
              /\ rres[2].kind = "InvalidArgument"
              /\ body_reads = 0
        /\ (stream.size >= 1 /\ stream.size <= 10 * 1024 * 1024) =>
              /\ rres = ipc_recv(stream)
              /\ body_reads = 1

C19_Witness ==
    /\ pc = "recv_done"
    /\ mode = "ipc_recv_safe"
    /\ stream.hdr = "ok"
    /\ stream.size = IPC_SAFE_SIZE + 1
    /\ stream.body = "full"
    /\ stream.payload[1] = "msg"
    /\ rres[2].kind = "InvalidArgument"

\* The frame read holds a message of the Error variant
DecodesToError ==
    /\ body_reads = 1
    /\ stream.body = "full"
    /\ stream.payload[1] = "msg"
    /\ stream.payload[2].data[1] = "Error"

\* C20: when the frame read decodes to a message of the Error variant,
\* ipc_recv, ipc_recv_safe and ipc_exec return that error, kind and message,
\* as Err; none of them returns Ok of a message of the Error variant.
C20_ErrorVariantIsErr ==
    /\ (pc = "recv_done" /\ DecodesToError) =>
          /\ rres = Err(stream.payload[2].data[2])
          /\ rres[2].kind = stream.payload[2].data[2].kind
          /\ rres[2].msg = stream.payload[2].data[2].msg
    /\ (pc = "recv_done" /\ IsOk(rres)) => rres[2].data[1] # "Error"

C20_Witness ==
    /\ pc = "recv_done"
    /\ mode = "ipc_exec"
    /\ DecodesToError
    /\ rres = Err(invalid_argument(<<"sent by the peer">>))

(***************************************************************************)
(* Properties of load_plugins.                                             *)
(***************************************************************************)
\* The entry is a plugin that was spawned
Spawned(o) == o.entry.file = "plugin" /\ o.entry.spawn = "ok"

\* The plugin answers the handshake with a QueryPluginInfoReply
AnswersInfo(o) ==
    /\ o.entry.answer.hdr = "ok"
    /\ o.entry.answer.body = "full"
    /\ o.entry.answer.payload[1] = "msg"
    /\ o.entry.answer.payload[2].data[1] = "QueryPluginInfoReply"

Registered(info) == \E j \in 1..Len(plugins) : plugins[j] = info

\* C15: no plugin is tried more than 10 times; a spawned plugin whose socket
\* accepts from attempt k <= 10 on is tried exactly k times; and when the
\* handshake is then exchanged and answered with a QueryPluginInfoReply, the
\* plugin is in the registry with the capacities it reported and its socket
\* path.
C15_RetryUntilAccepted ==
    /\ connects <= 10
    /\ \A k \in 1..Len(outcomes) :
          LET o == outcomes[k]
          IN  /\ o.connects <= 10
              /\ (Spawned(o) /\ o.entry.accept_from <= 10) =>
                    /\ o.connects = o.entry.accept_from
                    /\ (o.sent = Ok(<<>>) /\ AnswersInfo(o)) =>
                          /\ IsOk(o.result)
                          /\ o.result[2].capacities
                                = o.entry.answer.payload[2].data[2].capacities
                          /\ o.result[2].socket_path = socket_path_of(k)
                          /\ Registered(o.result[2])

C15_Witness ==
    /\ pc = "loaded"
    /\ Len(outcomes) = 2
    /\ outcomes[1].entry.accept_from = NeverAccepts
    /\ outcomes[2].entry.accept_from = 3
    /\ outcomes[2].connects = 3
    /\ plugins = << [name |-> "nispor", capacities |-> {"Query", "Apply"},
                     socket_path |-> socket_path_of(2)] >>

\* The results of plugin_start that are Ok, in the order of the entries
RECURSIVE StartedInfos(_)
StartedInfos(os) ==
    IF os = <<>> THEN <<>>
    ELSE IF os[1].result # Skipped /\ IsOk(os[1].result)
    THEN <<os[1].result[2]>> \o StartedInfos(Tail(os))
    ELSE StartedInfos(Tail(os))

\* The entry is excluded: plugin_start returned an error for it
Excluded(o) == o.result # Skipped /\ IsErr(o.result)

\* The handshake was exchanged and answered by a message of another variant
\* than QueryPluginInfoReply
AnswersOtherVariant(o) ==
    /\ o.sent = Ok(<<>>)
    /\ o.entry.answer.hdr = "ok"
    /\ o.entry.answer.body = "full"
    /\ o.entry.answer.payload[1] = "msg"
    /\ o.entry.answer.payload[2].data[1] # "QueryPluginInfoReply"

\* C16 as stated: a plugin whose spawn fails, whose socket accepts none of
\* the 10 attempts, or whose handshake reply is not QueryPluginInfoReply is
\* excluded with a PluginError.
C16_ExcludedWithPluginError ==
    \A k \in 1..Len(outcomes) :
        LET o == outcomes[k]
        IN  (o.entry.file = "plugin" /\
                (\/ o.entry.spawn = "fail"
                 \/ o.entry.accept_from > 10
                 \/ AnswersOtherVariant(o)))
            => Excluded(o) /\ o.result[2].kind = "PluginError"

\* C16, amended: a plugin whose spawn fails, whose socket accepts none of the
\* 10 attempts, or whose handshake is answered by a message that is not a
\* QueryPluginInfoReply is excluded with a PluginError; a plugin whose
\* handshake fails in ipc_exec (the send fails, the answer cannot be decoded
\* or is the Error variant) is excluded with the error ipc_exec returned; the
\* registry holds exactly the other plugins that were started, in order; and
\* load_plugins visits every entry and returns.
C16_ExclusionIsNotFatal ==
    /\ \A k \in 1..Len(outcomes) :
          LET o == outcomes[k]
              exec == ipc_exec(o.sent, o.entry.answer)
          IN  /\ (o.entry.file = "plugin" /\ o.entry.spawn = "fail") =>
                    Excluded(o) /\ o.result[2].kind = "PluginError"
              /\ (Spawned(o) /\ o.entry.accept_from > 10) =>
                    /\ Excluded(o)
                    /\ o.result[2].kind = "PluginError"
                    /\ o.connects = 10
              /\ (Spawned(o) /\ o.entry.accept_from <= 10) =>
                    IF IsErr(exec) THEN o.result = exec
                    ELSE IF exec[2].data[1] # "QueryPluginInfoReply"
                    THEN Excluded(o) /\ o.result[2].kind = "PluginError"
                    ELSE IsOk(o.result)
              /\ Excluded(o) =>
                    \A j \in 1..Len(plugins) :
                        plugins[j].socket_path # socket_path_of(k)
    /\ plugins = StartedInfos(outcomes)
    /\ pc = "loaded" \/ ENABLED LoadNext
    /\ pc = "loaded" => dir = <<>>

C16_Witness ==
    /\ pc = "loaded"
    /\ Len(outcomes) = 2
    /\ Spawned(outcomes[1])
    /\ outcomes[1].entry.accept_from = 1
    /\ outcomes[1].sent = Ok(<<>>)
    /\ outcomes[1].entry.answer.payload = <<"msg", new(<<"None">>)>>
    /\ outcomes[1].result[2].kind = "PluginError"
    /\ plugins = << [name |-> "conman", capacities |-> {"Config"},
                     socket_path |-> socket_path_of(2)] >>

(***************************************************************************)
(* Properties of ipc_send followed by ipc_recv.                            *)
(***************************************************************************)
\* ipc_send has returned Ok and the receiver has returned
SentAndReceived == pc = "recv_done" /\ hres[1] = "Ok"

RECURSIVE RepliedWith(_, _)
RepliedWith(replys, variant) ==
    IF replys = <<>> THEN <<>>
    ELSE LET rest == RepliedWith(Tail(replys), variant)
         IN  IF replys[1][1] = "Ok" /\ replys[1][2].data[1] = variant
             THEN <<replys[1][2].data[2]>> \o rest
             ELSE rest

\* C22: a QuerySavedConf is answered InvalidArgument exactly when no plugin
\* returned a QuerySavedConfReply; otherwise it is answered with the strict
\* merge of the records the plugins returned, or with the PluginError of
\* that merge.
C22_NotFoundExactlyWithoutReply ==
    (pc = "Sending" /\ req[1] = "QuerySavedConf") =>
        LET saved == RepliedWith(calls, "QuerySavedConfReply")
        IN  IF Len(saved) = 0
            THEN IsErr(hres) /\ hres[2].kind = "InvalidArgument"
            ELSE LET m == merge_from(saved[1], saved)
                 IN  IF IsErr(m)
                     THEN IsErr(hres) /\ hres[2].kind = "PluginError"
                     ELSE /\ IsOk(hres)
                          /\ hres[2].data[1] = "QuerySavedConfReply"
                          /\ hres[2].data[2] = m[2]

\* The records of a list holding a uuid
WithUuid(l, uuid) == { k \in 1..Len(l) : l[k].uuid = uuid }

\* C23: the list a QuerySavedConfAll is answered with holds, for each uuid a
\* plugin returned, exactly one record, the first one returned with that
\* uuid, and holds nothing else.
C23_OneRecordPerUuidFirstSeen ==
    (pc = "Sending" /\ req[1] = "QuerySavedConfAll") =>
        LET returned == flatten(RepliedWith(calls, "QuerySavedConfAllReply"))
        IN  /\ IsOk(hres)
            /\ hres[2].data[1] = "QuerySavedConfAllReply"
            /\ \A k \in 1..Len(returned) :
                  returned[k].uuid # None =>
                      LET first == CHOOSE f \in WithUuid(returned, returned[k].uuid) :
                                      \A g \in WithUuid(returned, returned[k].uuid) : f <= g
                      IN  /\ Cardinality(WithUuid(hres[2].data[2],
                                                  returned[k].uuid)) = 1
                          /\ \E j \in 1..Len(hres[2].data[2]) :
                                hres[2].data[2][j] = returned[first]
            /\ \A j \in 1..Len(hres[2].data[2]) :
                  \E k \in 1..Len(returned) : returned[k] = hres[2].data[2][j]

(***************************************************************************)
(* Properties of the end of a session.                                     *)
(***************************************************************************)
\* What ipc_recv_safe may return that ends the session
ClosingResults ==
    { ipc_recv_safe(f) : f \in
        { g \in ClientFrames :
            IF IsErr(ipc_recv_safe(g)) THEN TRUE
            ELSE ipc_recv_safe(g)[2].data[1] = "ConnectionClosed" } }

\* C24: the session closes from its read only, on the connection-closed
\* result or on a receive error, and sends nothing when it does; a request
\* it dispatches is never the connection-closed result; and once Closed it
\* takes no step: it neither reads, dispatches nor sends again.
C24_ClosedIsFinal ==
    /\ [](pc = "Closed" =>
            /\ closedBy \in {"ConnectionClosed", "RecvError"}
            /\ Len(sends) = nrecv
            /\ reply = Idle
            /\ ~ENABLED Next)
    /\ [][ /\ pc = "Closed" =>
                /\ pc' = "Closed"
                /\ nrecv' = nrecv
                /\ sends' = sends
                /\ req' = req
                /\ calls' = calls
           /\ (pc # "Closed" /\ pc' = "Closed") =>
                /\ pc = "Reading"
                /\ ClosingResults # {}
                /\ closedBy = "open"
                /\ closedBy' \in {"ConnectionClosed", "RecvError"}
                /\ sends' = sends
                /\ last_send' = last_send
                /\ nrecv' = nrecv
           /\ closedBy' # closedBy => pc' = "Closed"
           /\ nrecv' # nrecv =>
                /\ pc = "Reading"
                /\ req'[1] # "ConnectionClosed" ]_vars

C24_Witness ==
    /\ pc = "Closed"
    /\ closedBy = "ConnectionClosed"
    /\ nrecv = 1
    /\ sends = <<1>>

(***************************************************************************)
(* Properties of main and of concurrent sessions.                          *)
(***************************************************************************)
\* C25: the registry never changes once load_plugins has returned it, every
\* session holds at every time a list equal to it, and a step changes the
\* state of at most one session: whatever a session does, a failed plugin
\* call included, the state of every other session stays as it was.
C25_RegistryIsReadOnly ==
    /\ [](\A s \in 1..Len(clients) : clients[s].plugins = plugins)
    /\ [][ /\ plugins' = plugins
           /\ Len(clients') >= Len(clients)
           /\ \A s \in 1..Len(clients) :
                 /\ clients'[s].plugins = clients[s].plugins
                 /\ clients'[s] # clients[s] =>
                       \A t \in 1..Len(clients) \ {s} :
                           clients'[t] = clients[t]
                 /\ Len(clients') > Len(clients) => clients'[s] = clients[s]
         ]_vars

C25_Witness ==
    /\ Len(plugins) = 2
    /\ Len(clients) = 2
    /\ clients[1].pc = "Query"
    /\ \E i \in 1..2 : clients[1].calls[i][1] = "Err"
    /\ clients[2].pc = "Sending"
    /\ clients[2].reply.data[1] = "QuerySavedConfAllReply"
    /\ clients[1].plugins = plugins
    /\ clients[2].plugins = plugins

(***************************************************************************)
(* Properties of the order of the fragments.                               *)
(***************************************************************************)
Perms(n) ==
    { f \in [1..n -> 1..n] : \A i, j \in 1..n : i # j => f[i] # f[j] }

Permuted(s, f) == [i \in 1..Len(s) |-> s[f[i]]]

\* The key-value pairs of a merged document
PairSet(r) == { Items(r[2])[k] : k \in 1..Len(Items(r[2])) }

\* The strict merge of the strings a fan-out returned
MergedStrs(replys) ==
    merge_yaml_mappings(extract_strs_from_ipc_msg(ipc_plugins_exec(replys)))

\* C26: whatever the order of the plugins' replies to ValidateConf, their
\* strict merge fails for every order or gives the same key-value pairs for
\* every order, and the verdict of validate_conf is the same for every order.
C26_OrderIndependent ==
    (pc = "Validate" /\ Joined) =>
        \A f \in Perms(Len(calls)) :
            /\ IsErr(MergedStrs(calls)) = IsErr(MergedStrs(Permuted(calls, f)))
            /\ IsOk(MergedStrs(calls)) =>
                  PairSet(MergedStrs(calls))
                      = PairSet(MergedStrs(Permuted(calls, f)))
            /\ IsOk(validate_conf(req[2].config, desire, calls))
                  = IsOk(validate_conf(req[2].config, desire,
                                       Permuted(calls, f)))

(***************************************************************************)
(* Properties of what the fan-out returns.                                 *)
(***************************************************************************)
ReplyVariants ==
    {"QueryIfaceInfoReply", "ValidateConfReply", "SaveConfReply",
     "QuerySavedConfReply", "QuerySavedConfAllReply"}

\* Plugin i was selected and answered with a reply
Replied(i) ==
    /\ calls[i][1] = "Ok"
    /\ calls[i][2].data[1] \in ReplyVariants

\* C27: the fan-out returns one entry for each selected plugin that answered
\* with a reply, whatever its variant: each such reply is in the result, and
\* the result holds nothing else.
C27_EveryReplyReachesHandler ==
    pc = "returned" =>
        /\ \A i \in 1..Len(plugins) :
              Replied(i) => \E k \in 1..Len(fan_res) : fan_res[k] = calls[i][2]
        /\ Len(fan_res) = Cardinality({ i \in 1..Len(plugins) : Replied(i) })

(***************************************************************************)
(* Properties of fragments that are not mappings.                          *)
(***************************************************************************)
BadFragment(text) ==
    IF IsErr(from_str(text)) THEN TRUE ELSE as_mapping(from_str(text)[2]) = None

\* Replies of one variant carrying the fragments as strings
AsStrReplys(variant, strs) ==
    [i \in 1..Len(strs) |-> Ok(new(<<variant, strs[i]>>))]

\* Records carrying the fragments as their config
AsConnections(strs) ==
    [i \in 1..Len(strs) |-> ZatelConnection(Some("u1"), Some("n1"), strs[i])]

\* Replies of one variant carrying the fragments in records
AsConReplys(variant, strs) ==
    [i \in 1..Len(strs) |-> Ok(new(<<variant, AsConnections(strs)[i]>>))]

\* C28: a strict merge holding a fragment that does not parse, or that is
\* not a mapping, fails with PluginError; validate_conf and merge_from over
\* these fragments fail with that PluginError, and the save and by-id
\* handlers given them fail.
C28_BadFragmentFailsMerge ==
    (merged # NotRun /\ \E i \in 1..Len(yml_strs) : BadFragment(yml_strs[i])) =>
        /\ IsErr(merged)
        /\ merged[2].kind = "PluginError"
        /\ validate_conf(Block(<< <<"a", Int1>> >>), Map(<< <<"a", Int1>> >>),
                         AsStrReplys("ValidateConfReply", yml_strs)) = merged
        /\ LET m == merge_from(ZatelConnection(Some("u1"), Some("n1"),
                                               Block(<< <<"a", Int1>> >>)),
                               AsConnections(yml_strs))
           IN  IsErr(m) /\ m[2].kind = "PluginError"
        /\ IsErr(handle_save_conf(
                     ZatelConnection(Some("u1"), Some("n1"),
                                     Block(<< <<"a", Int1>> >>)),
                     AsConReplys("SaveConfReply", yml_strs)))
        /\ IsErr(handle_query_saved_conf(
                     "u1", AsConReplys("QuerySavedConfReply", yml_strs)))

C28_Witness ==
    /\ yml_strs = << Block(<< <<"a", Int1>> >>), <<"empty">>,
                     Block(<< <<"b", Int2>> >>) >>
    /\ IsErr(merged)
    /\ merged[2].kind = "PluginError"
    /\ merged[2].msg[1] = "Invalid format of YAML reply"

(***************************************************************************)
(* Properties of SaveConf with a text that is no YAML.                     *)
(***************************************************************************)
\* The text is not a YAML document
Unparseable(text) == text[1] # "yaml"

\* C29: while the session holds a SaveConf whose config is no YAML, it has
\* the InvalidArgument reply at hand, and no plugin was called for the
\* request: neither ValidateConf nor SaveConf was sent.
C29_UnparseableIsRejectedFirst ==
    (req[1] = "SaveConf" /\ Unparseable(req[2].config)) =>
        /\ pc = "Sending"
        /\ IsErr(hres)
        /\ hres[2].kind = "InvalidArgument"
        /\ reply.data[1] = "Error"
        /\ reply.data[2].kind = "InvalidArgument"
        /\ ztl_con = Idle
        /\ \A i \in 1..Len(plugins) : contacted[i] = {} /\ calls[i] = Idle

C29_Witness ==
    /\ req[1] = "SaveConf"
    /\ Unparseable(req[2].config)
    /\ pc = "Sending"
    /\ hres[2].kind = "InvalidArgument"
    /\ Len(plugins) = 2
    /\ "Apply" \in plugins[1].capacities
    /\ "Config" \in plugins[2].capacities
    /\ contacted = <<{}, {}>>
    /\ sends = <<1>>

(***************************************************************************)
(* Properties of a plugin that does not reply.                             *)
(***************************************************************************)
\* The call to plugin i is in flight
CallPending(i) == i \in 1..Len(calls) /\ calls[i] = Pending

\* The request at hand has no result and no reply
Unanswered == InFanout /\ hres = Idle /\ reply = Idle /\ Len(sends) < nrecv

\* C30: while a call of the fan-out is pending the session stays in that
\* fan-out: no step returns from the handler or sends a reply, and the only
\* thing that ends a call is the plugin's own answer; so if a selected
\* plugin never replies, the request stays unanswered for ever.
C30_HungPluginStallsFanout ==
    /\ [][ (InFanout /\ \E i \in 1..Len(calls) : CallPending(i)) =>
              /\ pc' = pc
              /\ hres' = hres
              /\ reply' = reply
              /\ sends' = sends
              /\ nrecv' = nrecv ]_vars
    /\ \A i \in 1..MaxPlugins :
          <>[]CallPending(i) => <>[]Unanswered

C30_Witness ==
    /\ pc = "Query"
    /\ Len(plugins) = 2
    /\ calls[1] = Pending
    /\ calls[2][1] = "Ok"
    /\ Unanswered

(***************************************************************************)
(* Properties of the startup of the daemon.                                *)
(***************************************************************************)
\* load_plugins is running
Loading == pc \in {"read_dir", "connect", "exec"}

\* C31: the socket is bound before load_plugins starts, a connection is
\* accepted only once load_plugins has returned, having visited every
\* entry, and while the reply to a handshake is awaited nothing ends the
\* wait but that reply; so when a plugin that accepted the connection never
\* answers, no client is ever accepted.
C31_AcceptOnlyAfterLoad ==
    /\ [](clients # <<>> => pc = "loaded" /\ dir = <<>>)
    /\ [][ /\ pc = "bind" => pc' \in {"read_dir", "exit"} /\ plugins' = <<>>
           /\ (Loading /\ ~Loading') => pc' = "loaded" /\ dir = <<>>
           /\ pc = "exec" =>
                 \/ pc' = "exec" /\ UNCHANGED <<clients, outcomes>>
                 \/ Len(outcomes') = Len(outcomes) + 1
           /\ clients' # clients => pc = "loaded" /\ plugins' = plugins
         ]_vars
    /\ <>[](pc = "exec") => [](clients = <<>>)

C31_Witness ==
    /\ pc = "loaded"
    /\ Len(clients) = 1
    /\ Len(outcomes) = 2
    /\ Len(plugins) = 1
    /\ outcomes[1].entry.accept_from = 3
    /\ clients[1].plugins = plugins

(***************************************************************************)
(* Properties of the session, frame by frame.                              *)
(***************************************************************************)
\* The whole frame arrived: the client is still connected
Arrived(frame) == frame.hdr = "ok" /\ frame.size > 0 /\ frame.body = "full"

Oversized(frame) == frame.hdr = "ok" /\ frame.size > IPC_SAFE_SIZE

Undecodable(frame) ==
    Arrived(frame) /\ ~Oversized(frame) /\ frame.payload[1] # "msg"

ErrorVariant(frame) ==
    /\ Arrived(frame)
    /\ ~Oversized(frame)
    /\ IF frame.payload[1] = "msg"
       THEN frame.payload[2].data[1] = "Error" ELSE FALSE

Rejected(frame) ==
    Oversized(frame) \/ Undecodable(frame) \/ ErrorVariant(frame)

\* The session has ipc_recv_safe's result for the frame it read
RecvReturned == pc = "recv_done"

\* C32: for a frame that is too long, or that arrived whole and cannot be
\* decoded or holds the Error variant, ipc_recv_safe returns Err, and the
\* session then closes: the frame is not counted as a request, nothing is
\* sent for it, and a closed session takes no step.
C32_RejectedFrameClosesSilently ==
    /\ [](RecvReturned /\ Rejected(stream) => rres[1] = "Err")
    /\ [][ /\ RecvReturned /\ Rejected(stream) =>
                /\ pc' = "Closed"
                /\ closedBy' = "RecvError"
                /\ UNCHANGED <<sends, last_send, nrecv, reply, calls>>
           /\ pc # "Closed"
         ]_vars

C32_Witness ==
    /\ pc = "Closed"
    /\ closedBy = "RecvError"
    /\ ErrorVariant(stream)
    /\ nrecv = 1
    /\ sends = <<1>>

\* The length prefix arrived and is 0: the peer wrote it and is connected
ZeroLength(frame) == frame.hdr = "ok" /\ frame.size = 0

\* The stream ended where a length prefix was expected
EndOfStream(frame) == frame.hdr = "eof"

\* C33: for a frame whose length prefix is 0, as for the end of the stream,
\* ipc_recv_safe returns Ok(ConnectionClosed) and has read no body; the
\* session that gets it closes as for a closed connection, counting no
\* request and sending nothing.
C33_ZeroLengthIsConnectionClosed ==
    /\ [](RecvReturned /\ (ZeroLength(stream) \/ EndOfStream(stream)) =>
            /\ body_reads = 0
            /\ rres[1] = "Ok"
            /\ IF rres[1] = "Ok"
               THEN rres[2] = new(<<"ConnectionClosed">>) ELSE FALSE)
    /\ [][RecvReturned /\ (ZeroLength(stream) \/ EndOfStream(stream)) =>
            /\ pc' = "Closed"
            /\ closedBy' = "ConnectionClosed"
            /\ UNCHANGED <<sends, last_send, nrecv, reply, calls>>]_vars

C33_Witness ==
    /\ pc = "Closed"
    /\ closedBy = "ConnectionClosed"
    /\ ZeroLength(stream)
    /\ body_reads = 0
    /\ nrecv = 1
    /\ sends = <<1>>

\* The variant of the message a frame that arrived whole decodes to
VariantOf(frame) ==
    IF Arrived(frame) /\ ~Oversized(frame) /\ frame.payload[1] = "msg"
    THEN frame.payload[2].data[1] ELSE "none"

\* The variants that reach the arm `_` of handle_client: ipc_recv_safe turns
\* the Error variant into a failure
Unrecognized == OtherVariants \ {"Error"}

\* The request in flight is one the arm `_` took
UnknownInFlight == pc = "Sending" /\ req[1] \in Unrecognized

\* C39 as stated: every frame that arrives whole with a variant other than
\* QueryIfaceInfo, SaveConf, QuerySavedConf and QuerySavedConfAll is
\* answered and leaves the session open.
C39_EveryOtherVariantIsAnswered ==
    [][RecvReturned /\ VariantOf(stream) \in
                         ZatelIpcDataVariants \ {"QueryIfaceInfo", "SaveConf",
                             "QuerySavedConf", "QuerySavedConfAll"}
         => pc' = "Sending" /\ closedBy' = "open"]_vars

\* C39: a frame that arrives whole with a variant handle_client has no arm
\* for, the Error variant aside, is counted as a request and answered with
\* an Error of kind InvalidArgument without any plugin being selected or
\* contacted; that reply is the only one sent for the request, and the
\* session is then open and reading.
C39_UnknownVariantGetsInvalidArgument ==
    /\ [](UnknownInFlight =>
            /\ reply.data[1] = "Error"
            /\ reply.data[2].kind = "InvalidArgument"
            /\ calls = NoCalls
            /\ \A i \in 1..Len(contacted) : contacted[i] = {})
    /\ [](\A i, j \in 1..Len(sends) : i < j => sends[i] < sends[j])
    /\ [][ /\ RecvReturned /\ VariantOf(stream) \in Unrecognized =>
                /\ pc' = "Sending"
                /\ req' = stream.payload[2].data
                /\ nrecv' = nrecv + 1
                /\ UNCHANGED <<sends, calls, contacted, closedBy>>
           /\ UnknownInFlight =>
                /\ pc' = "Reading"
                /\ sends' = Append(sends, nrecv)
                /\ last_send'[2] = reply
                /\ UNCHANGED <<calls, contacted, closedBy, nrecv>>
         ]_vars

C39_Witness ==
    /\ nrecv = 1
    /\ sends = <<1>>
    /\ pc = "Reading"
    /\ closedBy = "open"
    /\ VariantOf(stream) = "QueryPluginInfo"
    /\ last_send[2].data[1] = "Error"
    /\ Len(plugins) = 2

(***************************************************************************)
(* Properties of the order of the replies of a fan-out.                    *)
(***************************************************************************)
\* The calls whose reply ipc_plugins_exec keeps
Kept == { i \in 1..Len(plugins) :
            IF calls[i][1] = "Ok" THEN IsOk(get_data_str(calls[i][2]))
            ELSE FALSE }

\* The k-th of the kept calls, counted along the registry
KthKept(k) ==
    CHOOSE i \in Kept : Cardinality({ j \in Kept : j <= i }) = k

\* Every selected plugin's call has completed, the second before the first
FinishedBackwards ==
    /\ Len(finished) = 2
    /\ finished[1] > finished[2]

\* C34: what the fan-out returns is the kept replies in the order of their
\* plugins in the registry, whatever the order the calls completed in; the
\* by-id and the list handlers, given the results in any order of completion,
\* return what they return for the registry order.
C34_RepliesInRegistryOrder ==
    pc = "returned" =>
        /\ Len(fan_res) = Cardinality(Kept)
        /\ \A k \in 1..Len(fan_res) : fan_res[k] = calls[KthKept(k)][2]
        /\ handle_query_saved_conf("u1", join_all(calls, finished))
              = handle_query_saved_conf("u1", calls)
        /\ handle_query_saved_conf_all(join_all(calls, finished))
              = handle_query_saved_conf_all(calls)

C34_Witness ==
    /\ pc = "returned"
    /\ FinishedBackwards
    /\ Len(fan_res) = 2
    /\ fan_res[1] # fan_res[2]
    /\ fan_res[1] = calls[1][2]

(***************************************************************************)
(* Properties of the record a SaveConf returns.                            *)
(***************************************************************************)
\* The submitted config, then the config of every echoed record
SaveStrs ==
    <<ztl_con[2].config>> \o [k \in 1..Len(Echoed) |-> Echoed[k].config]

\* Every echoed record names the uuid and the name assigned, or none
IdentityAgrees ==
    \A k \in 1..Len(Echoed) :
        /\ Echoed[k].uuid \in {None, ztl_con[2].uuid}
        /\ Echoed[k].name \in {None, ztl_con[2].name}

\* C35: a SaveConf answered by Config plugins whose records agree on uuid
\* and name fails with PluginError when an echoed config holds another value
\* for a top-level key, and otherwise returns a record whose config is the
\* strict merge of the submitted config followed by the echoed ones, holding
\* every top-level key a plugin added.
C35_ReturnedConfigIsStrictMerge ==
    (SaveReturned /\ Len(Echoed) > 0 /\ IdentityAgrees) =>
        IF ConfigsConflict(SaveStrs)
        THEN IsErr(hres) /\ hres[2].kind = "PluginError"
        ELSE /\ IsOk(hres)
             /\ reply.data[1] = "SaveConfReply"
             /\ Ok(reply.data[2].config) = merge_yaml_mappings(SaveStrs)
             /\ \A k \in 1..Len(Echoed) :
                    Keys(Echoed[k].config) \subseteq Keys(reply.data[2].config)

\* The value of the top-level key `name` of a document when it is a string
NameEntries(text) ==
    { Items(text)[x][2][2] : x \in
        { y \in 1..Len(Items(text)) :
            Items(text)[y][1] = "name" /\ Items(text)[y][2][1] = "Str" } }

\* The identity handle_save_conf is to give the record of the request
IdentityAsPromised ==
    /\ ztl_con[2].uuid =
          IF req[2].uuid # None THEN req[2].uuid ELSE Some("new-v4")
    /\ IF req[2].name # None THEN ztl_con[2].name = req[2].name
       ELSE IF NameEntries(req[2].config) # {}
       THEN ztl_con[2].name[2] \in NameEntries(req[2].config)
       ELSE ztl_con[2].name = Some("unknown")
    /\ ztl_con[2].config = req[2].config

NestedDiffer(strs) ==
    \E i, j \in 1..Len(strs) :
        \E x \in 1..Len(Items(strs[i])), y \in 1..Len(Items(strs[j])) :
            /\ Items(strs[i])[x][1] = Items(strs[j])[y][1]
            /\ Items(strs[i])[x][2][1] = "Map"
            /\ Items(strs[j])[y][2][1] = "Map"
            /\ Items(strs[i])[x][2] # Items(strs[j])[y][2]

\* The entries of the fragments
FragmentEntries(strs) ==
    UNION { { Items(strs[i])[x] : x \in 1..Len(Items(strs[i])) } :
              i \in 1..Len(strs) }

\* C37: a merge of mappings in which two fragments hold a top-level key
\* with nested mappings that differ, be it by the value of a nested key or
\* by a nested key only one of them holds, fails with PluginError; and each
\* entry of a merged document is an entry of one of the fragments, its
\* value taken as a whole.
C37_NestedValuesComparedWhole ==
    (merged # NotRun /\ AllMappings(yml_strs)) =>
        /\ NestedDiffer(yml_strs) =>
              IsErr(merged) /\ merged[2].kind = "PluginError"
        /\ IsOk(merged) => PairSet(merged) \subseteq FragmentEntries(yml_strs)

C37_Witness ==
    /\ merged # NotRun
    /\ yml_strs = << Block(<< <<"c", Map(<< <<"x", Int1>> >>)>> >>),
                     Block(<< <<"c", Map(<< <<"x", Int1>>, <<"y", Int2>> >>)>> >>) >>
    /\ IsErr(merged)
    /\ merged[2].msg[1] = "Duplicate key"

(***************************************************************************)
(* Properties of the socket path of a registered plugin.                   *)
(***************************************************************************)
\* The socket_path the plugin of outcome n put in its handshake reply
ReportedPath(n) == outcomes[n].entry.answer.payload[2].data[2].socket_path

\* The outcomes that registered a plugin
Registrations == { n \in 1..Len(outcomes) : outcomes[n].result[1] = "Ok" }

\* C38: the PluginInfo plugin_start returns for an entry, and so every
\* PluginInfo of the registry, has for socket_path the path made of the
\* socket prefix and the entry's name, the path the daemon dialed, whether
\* the plugin reported that path, none, or another one.
C38_SocketPathIsDialedPath ==
    /\ \A n \in Registrations :
          outcomes[n].result[2].socket_path = socket_path_of(n)
    /\ Len(plugins) = Cardinality(Registrations)
    /\ \A k \in 1..Len(plugins) :
          \E n \in Registrations :
              /\ plugins[k] = outcomes[n].result[2]
              /\ Cardinality({ m \in Registrations : m <= n }) = k

C38_Witness ==
    /\ pc = "loaded"
    /\ Len(plugins) = 2
    /\ ReportedPath(1) = ""
    /\ ReportedPath(2) = "/tmp/elsewhere"
    /\ plugins[2].socket_path = "/tmp/zatel_plugin_2"
    /\ plugins[1].socket_path # plugins[2].socket_path

\* The request the plugin answered last is QuerySavedConf(u) and a record
\* was saved under u
QueriedSaved ==
    /\ handled[1] = "Handled"
    /\ handled[2][1] = "QuerySavedConf"
    /\ last_saved[handled[2][2]] # None

\* C40: after any sequence of SaveConf calls, the answer of the conman plugin
\* to QuerySavedConf(u) is a QuerySavedConfReply holding the uuid, the name and
\* the config, as a mapping, of the last record saved under u; a record saved
\* earlier under u with a longer document, and a config with a top-level
\* `_connection` key, are included.
C40_QueryReturnsLastSaved ==
    QueriedSaved =>
        LET record == last_saved[handled[2][2]][2]
            data == handled[3].data
        IN  /\ data[1] = "QuerySavedConfReply"
            /\ data[2].uuid = record.uuid
            /\ data[2].name = record.name
            /\ from_str(data[2].config) = from_str(record.config)

=============================================================================
